---- MODULE Spec2Model ----
(***************************************************************************)
(* Model of the graph package: a directed graph whose nodes are placed in  *)
(* a tree of nests, with string attribute pools for graphs, nodes and      *)
(* nests.  Objects live in arenas (sequences of records); a pointer is an  *)
(* index into the arena of its type and nil is 0.                          *)
(***************************************************************************)
EXTENDS Integers, Sequences, FiniteSets, TLC

\* ---- bounds of the model ------------------------------------------------
NumGraphs == 2
MaxNodes == 2
MaxNests == 2
MaxEdges == 1
\* handle objects a client may hold per kind of attribute
MaxAttrs == 3
\* The objects made in a run that spreads attribute values over a structure
MaxCreated == 5
\* The objects made in a run that sets, releases and allocates again
MaxTripObjects == 3
\* Edges of the graph whose adjacency lists are checked
MaxAdjEdges == 3
\* Nodes, nests and edges made on the graph whose traversals are checked
MaxWalkObjects == 5
\* Nodes, nests and edges made on the graph whose loop edges are checked
MaxLoopObjects == 5
\* Nodes, nests, edges and node attribute handles made on the graph whose
\* nodes are moved
MaxMoveObjects == 5
\* Nodes, nests and attribute handles made on the graph whose attribute
\* values are written
MaxFrameObjects == 3
\* Nodes of the graph whose membership lists are reordered
MaxOrderNodes == 3
\* sizes of the attribute pools of the first graph
GraphStrAttrNum == 2
NodeStrAttrNum == 1
NestStrAttrNum == 1
\* attribute values a client writes
Values == {"a"}
\* The values set where a value is overwritten and read back
RoundTripValues == {"a", "b"}

\* ---- program constants --------------------------------------------------
nil == 0
NT_ROOT_NEST_LEVEL == 0

VARIABLES graphs, nestTrees, nests, nodes, edges, pc, mv, ret, fault,
          graphAttrs, nodeAttrs, nestAttrs

structVars == <<graphs, nestTrees, nests, nodes, edges>>
attrObjs == <<graphAttrs, nodeAttrs, nestAttrs>>
vars == <<graphs, nestTrees, nests, nodes, edges, pc, mv, ret, fault,
          graphAttrs, nodeAttrs, nestAttrs>>

Graphs == 1..NumGraphs

\* The graph the operations that build nodes, nests and edges are invoked on;
\* the other graphs supply foreign nodes, nests and attribute handles
G == 1

\* The objects reachable from the program, as a value the helpers transform
Heap == [nests |-> nests, nodes |-> nodes, edges |-> edges, fault |-> fault]

Panic(h, msg) == [h EXCEPT !.fault = IF h.fault = "none" THEN msg ELSE h.fault]

\* ---- nest_tree.go: membership lists -------------------------------------

\* An addNode that appends the node to the nest's list of nodes
addNode_tailInsert(h, nest, node) ==
    IF h.nests[nest].nestTree = nil
    THEN Panic(h, "addNode: no nest tree")
    ELSE IF nestTrees[h.nests[nest].nestTree].baseGraph # h.nodes[node].graph
    THEN Panic(h, "addNode: different graph")
    ELSE LET last_node == h.nests[nest].lastNode
             nodes1 == IF last_node # nil
                       THEN [h.nodes EXCEPT ![last_node].nextNodeInNest = node]
                       ELSE h.nodes
             nests1 == IF last_node # nil
                       THEN h.nests
                       ELSE [h.nests EXCEPT ![nest].firstNode = node]
         IN  [h EXCEPT !.nodes = [nodes1 EXCEPT ![node].prevNodeInNest = last_node],
                       !.nests = [nests1 EXCEPT ![nest].lastNode = node]]

\* Nest.addNode: head insertion into the nest's list of nodes
addNode(h, nest, node) ==
    IF h.nests[nest].nestTree = nil
    THEN Panic(h, "addNode: no nest tree")
    ELSE IF nestTrees[h.nests[nest].nestTree].baseGraph # h.nodes[node].graph
    THEN Panic(h, "addNode: different graph")
    ELSE LET first_node == h.nests[nest].firstNode
             nodes1 == IF first_node # nil
                       THEN [h.nodes EXCEPT ![first_node].prevNodeInNest = node]
                       ELSE h.nodes
             nests1 == IF first_node # nil
                       THEN h.nests
                       ELSE [h.nests EXCEPT ![nest].lastNode = node]
         IN  [h EXCEPT !.nodes = [nodes1 EXCEPT ![node].nextNodeInNest = first_node],
                       !.nests = [nests1 EXCEPT ![nest].firstNode = node]]

\* removeNode that leaves lastNode alone when the last node of the list goes
removeNode_staleLast(h, nest, node) ==
    LET next_node == h.nodes[node].nextNodeInNest
        prev_node == h.nodes[node].prevNodeInNest
        nodes1 == IF next_node # nil
                  THEN [h.nodes EXCEPT ![next_node].prevNodeInNest = prev_node]
                  ELSE h.nodes
        nodes2 == IF prev_node # nil
                  THEN [nodes1 EXCEPT ![prev_node].nextNodeInNest = next_node]
                  ELSE nodes1
        nests2 == IF prev_node # nil
                  THEN h.nests
                  ELSE [h.nests EXCEPT ![nest].firstNode = next_node]
    IN  [h EXCEPT !.nodes = [nodes2 EXCEPT ![node].nextNodeInNest = nil,
                                           ![node].prevNodeInNest = nil],
                  !.nests = nests2]

\* removeNode that also takes the nest from the node that followed in the list
removeNode_clearsNestOfNext(h, nest, node) ==
    IF h.nests[nest].nestTree = nil
    THEN Panic(h, "removeNode: no nest tree")
    ELSE IF nestTrees[h.nests[nest].nestTree].baseGraph # h.nodes[node].graph
    THEN Panic(h, "removeNode: different graph")
    ELSE LET next_node == h.nodes[node].nextNodeInNest
             prev_node == h.nodes[node].prevNodeInNest
             nodes1 == IF next_node # nil
                       THEN [h.nodes EXCEPT ![next_node].prevNodeInNest = prev_node]
                       ELSE h.nodes
             nests1 == IF next_node # nil
                       THEN h.nests
                       ELSE [h.nests EXCEPT ![nest].lastNode = prev_node]
             nodes2 == IF prev_node # nil
                       THEN [nodes1 EXCEPT ![prev_node].nextNodeInNest = next_node]
                       ELSE nodes1
             nests2 == IF prev_node # nil
                       THEN nests1
                       ELSE [nests1 EXCEPT ![nest].firstNode = next_node]
             nodes3 == IF next_node # nil
                       THEN [nodes2 EXCEPT ![next_node].nest = nil]
                       ELSE nodes2
         IN  [h EXCEPT !.nodes = [nodes3 EXCEPT ![node].nextNodeInNest = nil,
                                                ![node].prevNodeInNest = nil],
                       !.nests = nests2]

\* Nest.removeNode: unlink a node from the nest's list of nodes
removeNode(h, nest, node) ==
    IF h.nests[nest].nestTree = nil
    THEN Panic(h, "removeNode: no nest tree")
    ELSE IF nestTrees[h.nests[nest].nestTree].baseGraph # h.nodes[node].graph
    THEN Panic(h, "removeNode: different graph")
    ELSE LET next_node == h.nodes[node].nextNodeInNest
             prev_node == h.nodes[node].prevNodeInNest
             nodes1 == IF next_node # nil
                       THEN [h.nodes EXCEPT ![next_node].prevNodeInNest = prev_node]
                       ELSE h.nodes
             nests1 == IF next_node # nil
                       THEN h.nests
                       ELSE [h.nests EXCEPT ![nest].lastNode = prev_node]
             nodes2 == IF prev_node # nil
                       THEN [nodes1 EXCEPT ![prev_node].nextNodeInNest = next_node]
                       ELSE nodes1
             nests2 == IF prev_node # nil
                       THEN nests1
                       ELSE [nests1 EXCEPT ![nest].firstNode = next_node]
         IN  [h EXCEPT !.nodes = [nodes2 EXCEPT ![node].nextNodeInNest = nil,
                                                ![node].prevNodeInNest = nil],
                       !.nests = nests2]

\* Nest.addEdge: head insertion into the nest's list of edges
addEdge(h, nest, edge) ==
    IF h.nests[nest].nestTree = nil
    THEN Panic(h, "addEdge: no nest tree")
    ELSE IF nestTrees[h.nests[nest].nestTree].baseGraph # h.edges[edge].graph
    THEN Panic(h, "addEdge: different graph")
    ELSE LET first_edge == h.nests[nest].firstEdge
             edges1 == IF first_edge # nil
                       THEN [h.edges EXCEPT ![first_edge].prevEdgeInNest = edge]
                       ELSE h.edges
         IN  [h EXCEPT !.edges = [edges1 EXCEPT ![edge].nextEdgeInNest = first_edge],
                       !.nests = [h.nests EXCEPT ![nest].firstEdge = edge]]

\* removeEdge that leaves firstEdge alone when the head of the list goes
removeEdge_staleFirst(h, nest, edge) ==
    LET next_edge == h.edges[edge].nextEdgeInNest
        prev_edge == h.edges[edge].prevEdgeInNest
        edges1 == IF next_edge # nil
                  THEN [h.edges EXCEPT ![next_edge].prevEdgeInNest = prev_edge]
                  ELSE h.edges
        edges2 == IF prev_edge # nil
                  THEN [edges1 EXCEPT ![prev_edge].nextEdgeInNest = next_edge]
                  ELSE edges1
    IN  [h EXCEPT !.edges = [edges2 EXCEPT ![edge].nextEdgeInNest = nil,
                                           ![edge].prevEdgeInNest = nil]]

\* Nest.removeEdge: unlink an edge from the nest's list of edges
removeEdge(h, nest, edge) ==
    IF h.nests[nest].nestTree = nil
    THEN Panic(h, "removeEdge: no nest tree")
    ELSE IF nestTrees[h.nests[nest].nestTree].baseGraph # h.edges[edge].graph
    THEN Panic(h, "removeEdge: different graph")
    ELSE LET next_edge == h.edges[edge].nextEdgeInNest
             prev_edge == h.edges[edge].prevEdgeInNest
             edges1 == IF next_edge # nil
                       THEN [h.edges EXCEPT ![next_edge].prevEdgeInNest = prev_edge]
                       ELSE h.edges
             edges2 == IF prev_edge # nil
                       THEN [edges1 EXCEPT ![prev_edge].nextEdgeInNest = next_edge]
                       ELSE edges1
             nests1 == IF prev_edge # nil
                       THEN h.nests
                       ELSE [h.nests EXCEPT ![nest].firstEdge = next_edge]
         IN  [h EXCEPT !.edges = [edges2 EXCEPT ![edge].nextEdgeInNest = nil,
                                                ![edge].prevEdgeInNest = nil],
                       !.nests = nests1]

\* ---- graph.go: the ancestor search of Edge.calcNestAndMoveToIt ----------

\* "for a.level > lvl { a = a.parentNest; if a == nil { panic } }"
RECURSIVE walkUpToLevel(_, _, _)
walkUpToLevel(N, a, lvl) ==
    IF a = nil THEN nil
    ELSE IF N[a].level > lvl THEN walkUpToLevel(N, N[a].parentNest, lvl)
    ELSE a

\* A joint climb that stays where the source side is
walkUpTogether_noClimb(N, a, b) ==
    a

\* A joint climb that takes a step before it compares the two nests
walkUpTogether_climbFirst(N, a, b) ==
    IF N[a].parentNest = nil \/ N[b].parentNest = nil THEN nil
    ELSE IF N[a].parentNest = N[b].parentNest THEN N[a].parentNest
    ELSE nil

\* "for dst != src { dst = dst.parentNest; src = src.parentNest; if nil { panic } }"
RECURSIVE walkUpTogether(_, _, _)
walkUpTogether(N, a, b) ==
    IF a = b THEN a
    ELSE IF N[a].parentNest = nil \/ N[b].parentNest = nil THEN nil
    ELSE walkUpTogether(N, N[a].parentNest, N[b].parentNest)

\* The ancestor search without its last loop: the two walks are brought to
\* one level and the source side is taken
commonNest_levelOnly(N, src_nest, dst_nest) ==
    walkUpToLevel(N, src_nest, N[dst_nest].level)

\* The ancestor search without the two loops that bring the walks to one
\* level
commonNest_noLevelling(N, src_nest, dst_nest) ==
    walkUpTogether(N, src_nest, dst_nest)

\* The nest found by the three loops for a source and a destination nest;
\* nil stands for the panic on an inconsistent nest tree
commonNest(N, src_nest, dst_nest) ==
    LET s1 == walkUpToLevel(N, src_nest, N[dst_nest].level)
    IN  IF s1 = nil THEN nil
        ELSE LET d1 == walkUpToLevel(N, dst_nest, N[s1].level)
             IN  IF d1 = nil THEN nil ELSE walkUpTogether(N, s1, d1)

\* Edge.calcNestAndMoveToIt
calcNestAndMoveToIt(h, edge) ==
    LET src_node == h.edges[edge].srcNode
        dst_node == h.edges[edge].dstNode
    IN
    IF src_node = nil \/ dst_node = nil
    THEN Panic(h, "calcNest: edge without a node")
    ELSE IF h.nodes[src_node].graph # h.nodes[dst_node].graph
    THEN Panic(h, "calcNest: nodes of different graphs")
    ELSE IF h.edges[edge].graph # h.nodes[src_node].graph
    THEN Panic(h, "calcNest: edge of a different graph")
    ELSE IF h.nodes[src_node].nest = nil \/ h.nodes[dst_node].nest = nil
    THEN Panic(h, "calcNest: node without a nest")
    ELSE LET src_nest == h.nodes[src_node].nest
             dst_nest == h.nodes[dst_node].nest
         IN
         IF h.nests[src_nest].nestTree # h.nests[dst_nest].nestTree
         THEN Panic(h, "calcNest: different nest trees")
         ELSE IF nestTrees[h.nests[src_nest].nestTree].baseGraph # h.edges[edge].graph
         THEN Panic(h, "calcNest: nest tree of a different graph")
         ELSE LET target == commonNest(h.nests, src_nest, dst_nest)
              IN  IF target = nil
                  THEN Panic(h, "calcNest: inconsistent nest tree")
                  ELSE LET h1 == IF h.edges[edge].nest # nil
                                 THEN removeEdge(h, h.edges[edge].nest, edge)
                                 ELSE h
                           h2 == [h1 EXCEPT !.edges[edge].nest = target]
                       IN  addEdge(h2, target, edge)

\* ---- construction ------------------------------------------------------

\* The attribute specification each graph is created with
\* DefaultAttrSpec: every pool is empty
DefaultAttrSpec == [GraphStrAttrNum |-> 0, NodeStrAttrNum |-> 0, NestStrAttrNum |-> 0]

\* The attribute specification each graph is created with: the first graph
\* gets pools, every other graph is created with DefaultAttrSpec()
attrSpecOf(g) ==
    IF g = 1
    THEN [GraphStrAttrNum |-> GraphStrAttrNum, NodeStrAttrNum |-> NodeStrAttrNum,
          NestStrAttrNum |-> NestStrAttrNum]
    ELSE DefaultAttrSpec

\* graph_str_attr_invalid, node_str_attr_invalid: the package-level invalid handles
graph_str_attr_invalid == [attrNum |-> -1, isValid |-> FALSE, graph |-> nil]
node_str_attr_invalid == [attrNum |-> -1, isValid |-> FALSE, graph |-> nil]
\* nest_str_attr_invalid
nest_str_attr_invalid == [attr_num |-> -1, is_valid |-> FALSE, nestTree |-> nil]

\* The handle arenas hold the package-level invalid handle at this index
invalidAttr == 1

noVal == [isSet |-> FALSE, data |-> ""]

\* make([]T, n): a slice of n zero values
makeSlice(n, zero) == [i \in 1..n |-> zero]

\* NewGraph
NewGraph(g) ==
    [nestTree |-> g, nodeCount |-> 0, edgeCount |-> 0, attrSpec |-> attrSpecOf(g),
     graphStrAttrAllocMap |-> makeSlice(attrSpecOf(g).GraphStrAttrNum, FALSE),
     nodeStrAttrAllocMap |-> makeSlice(attrSpecOf(g).NodeStrAttrNum, FALSE),
     strAttrs |-> makeSlice(attrSpecOf(g).GraphStrAttrNum, noVal)]

\* newNestTree that does not count the root nest
newNestTree_rootNotCounted(g) ==
    [baseGraph |-> g, nestCount |-> 0, rootNest |-> g,
     nestStrAttrAllocMap |-> makeSlice(attrSpecOf(g).NestStrAttrNum, FALSE)]

\* newNestTree: the tree record, with the root nest already counted
newNestTree(g) ==
    [baseGraph |-> g, nestCount |-> 1, rootNest |-> g,
     nestStrAttrAllocMap |-> makeSlice(attrSpecOf(g).NestStrAttrNum, FALSE)]

\* newNestTree: the root nest (its strAttrs field is left at its zero value)
newRootNest(t) ==
    [id |-> 0, nestTree |-> t, level |-> NT_ROOT_NEST_LEVEL, parentNest |-> nil,
     firstChildNest |-> nil, lastChildNest |-> nil,
     nextSiblingNest |-> nil, prevSiblingNest |-> nil,
     firstNode |-> nil, lastNode |-> nil, firstEdge |-> nil, strAttrs |-> <<>>]

\* The locals of a MoveToNest call: its receiver, its argument, the loop
\* variable, and the nest the node was in when the call was made
noCall == [node |-> nil, nest |-> nil, edge |-> nil, from |-> nil]

\* The node that NewNode makes on a graph (before it is put in the root nest)
\* A node record whose attribute slots are not zeroed
newNodeRecord_slotsSet(g, id, root, attrNum) ==
    [firstIncomingEdge |-> nil, firstOutcomingEdge |-> nil,
     id |-> id, nest |-> root,
     nextNodeInNest |-> nil, prevNodeInNest |-> nil, graph |-> g,
     strAttrs |-> makeSlice(attrNum, [noVal EXCEPT !.isSet = TRUE])]

\* graph.go: the Node literal of Graph.NewNode
newNodeRecord(g, id, root, attrNum) ==
    [firstIncomingEdge |-> nil, firstOutcomingEdge |-> nil,
     id |-> id, nest |-> root,
     nextNodeInNest |-> nil, prevNodeInNest |-> nil, graph |-> g,
     strAttrs |-> makeSlice(attrNum, noVal)]

\* The state after NewGraph for every graph and one NewNode on each graph
\* other than G: node g - 1 is the node of graph g
Init ==
    /\ graphs = [g \in Graphs |->
                    IF g = G THEN NewGraph(g)
                    ELSE [NewGraph(g) EXCEPT !.nodeCount = 1]]
    /\ nestTrees = [g \in Graphs |-> newNestTree(g)]
    /\ nests = [g \in Graphs |->
                   IF g = G THEN newRootNest(g)
                   ELSE [newRootNest(g) EXCEPT !.firstNode = g - 1, !.lastNode = g - 1]]
    /\ nodes = [n \in 1..(NumGraphs - 1) |->
                   newNodeRecord(n + 1, 0, n + 1, attrSpecOf(n + 1).NodeStrAttrNum)]
    /\ edges = <<>>
    /\ pc = "idle"
    /\ mv = noCall
    /\ ret = [op |-> "NewGraph", err |-> FALSE, val |-> nil]
    /\ fault = "none"
    /\ graphAttrs = <<graph_str_attr_invalid>>
    /\ nodeAttrs = <<node_str_attr_invalid>>
    /\ nestAttrs = <<nest_str_attr_invalid>>

Ready == pc = "idle" /\ fault = "none"

\* Install a heap value as the next state
Store(h) ==
    /\ nests' = h.nests
    /\ nodes' = h.nodes
    /\ edges' = h.edges
    /\ fault' = h.fault

\* ---- graph.go: Graph.NewNode --------------------------------------------
\* The call on a graph that holds fewer than limit nodes
NewNodeWithin(limit, g) ==
    /\ Ready
    /\ graphs[g].nodeCount < limit
    /\ LET root == nestTrees[graphs[g].nestTree].rootNest
           node_p == newNodeRecord(g, graphs[g].nodeCount, root,
                                   graphs[g].attrSpec.NodeStrAttrNum)
           n == Len(nodes) + 1
           h == addNode([Heap EXCEPT !.nodes = Append(nodes, node_p)], root, n)
       IN  /\ Store(h)
           /\ graphs' = [graphs EXCEPT ![g].nodeCount = @ + 1]
           /\ ret' = [op |-> "NewNode", err |-> FALSE, val |-> n]
    /\ UNCHANGED <<nestTrees, pc, mv, attrObjs>>

NewNode(g) == NewNodeWithin(MaxNodes, g)

\* A NewNest that gives the new nest the level of the root nest
NewNest_levelOfRoot(nt) ==
    /\ Ready
    /\ nestTrees[nt].nestCount < 1 + MaxNests
    /\ LET root == nestTrees[nt].rootNest
           sibling == nests[root].firstChildNest
           p == Len(nests) + 1
           nest_p == [id |-> nestTrees[nt].nestCount, nestTree |-> nt,
                      level |-> nests[root].level, parentNest |-> root,
                      firstChildNest |-> nil, lastChildNest |-> nil,
                      nextSiblingNest |-> sibling, prevSiblingNest |-> nil,
                      firstNode |-> nil, lastNode |-> nil, firstEdge |-> nil,
                      strAttrs |-> makeSlice(
                          graphs[nestTrees[nt].baseGraph].attrSpec.NestStrAttrNum, noVal)]
           nests1 == Append(nests, nest_p)
           nests2 == IF sibling # nil
                     THEN [nests1 EXCEPT ![sibling].prevSiblingNest = p]
                     ELSE [nests1 EXCEPT ![root].lastChildNest = p]
       IN  /\ nests' = [nests2 EXCEPT ![root].firstChildNest = p]
           /\ nestTrees' = [nestTrees EXCEPT ![nt].nestCount = @ + 1]
           /\ ret' = [op |-> "NewNest", err |-> FALSE, val |-> p]
    /\ UNCHANGED <<graphs, nodes, edges, pc, mv, fault, attrObjs>>

\* A NewNest that does not link the former first child back to the new nest
NewNest_noPrevLink(nt) ==
    /\ Ready
    /\ nestTrees[nt].nestCount < 1 + MaxNests
    /\ LET root == nestTrees[nt].rootNest
           sibling == nests[root].firstChildNest
           p == Len(nests) + 1
           nest_p == [id |-> nestTrees[nt].nestCount, nestTree |-> nt,
                      level |-> nests[root].level + 1, parentNest |-> root,
                      firstChildNest |-> nil, lastChildNest |-> nil,
                      nextSiblingNest |-> sibling, prevSiblingNest |-> nil,
                      firstNode |-> nil, lastNode |-> nil, firstEdge |-> nil,
                      strAttrs |-> makeSlice(
                          graphs[nestTrees[nt].baseGraph].attrSpec.NestStrAttrNum, noVal)]
           nests1 == Append(nests, nest_p)
           nests2 == IF sibling # nil
                     THEN nests1
                     ELSE [nests1 EXCEPT ![root].lastChildNest = p]
       IN  /\ nests' = [nests2 EXCEPT ![root].firstChildNest = p]
           /\ nestTrees' = [nestTrees EXCEPT ![nt].nestCount = @ + 1]
           /\ ret' = [op |-> "NewNest", err |-> FALSE, val |-> p]
    /\ UNCHANGED <<graphs, nodes, edges, pc, mv, fault, attrObjs>>

\* ---- nest_tree.go: NestTree.NewNest -------------------------------------
NewNest(nt) ==
    /\ Ready
    /\ nestTrees[nt].nestCount < 1 + MaxNests
    /\ LET root == nestTrees[nt].rootNest
           sibling == nests[root].firstChildNest
           p == Len(nests) + 1
           nest_p == [id |-> nestTrees[nt].nestCount, nestTree |-> nt,
                      level |-> nests[root].level + 1, parentNest |-> root,
                      firstChildNest |-> nil, lastChildNest |-> nil,
                      nextSiblingNest |-> sibling, prevSiblingNest |-> nil,
                      firstNode |-> nil, lastNode |-> nil, firstEdge |-> nil,
                      strAttrs |-> makeSlice(
                          graphs[nestTrees[nt].baseGraph].attrSpec.NestStrAttrNum, noVal)]
           nests1 == Append(nests, nest_p)
           nests2 == IF sibling # nil
                     THEN [nests1 EXCEPT ![sibling].prevSiblingNest = p]
                     ELSE [nests1 EXCEPT ![root].lastChildNest = p]
       IN  /\ nests' = [nests2 EXCEPT ![root].firstChildNest = p]
           /\ nestTrees' = [nestTrees EXCEPT ![nt].nestCount = @ + 1]
           /\ ret' = [op |-> "NewNest", err |-> FALSE, val |-> p]
    /\ UNCHANGED <<graphs, nodes, edges, pc, mv, fault, attrObjs>>

\* ---- graph.go: Graph.NewEdge --------------------------------------------
\* The checks that do not look at the graph of the destination node
newEdgeRejects_noDstGraph(g, src_node, dst_node) ==
    \/ src_node = nil
    \/ dst_node = nil
    \/ nodes[src_node].graph # g

\* The four checks NewEdge makes on its arguments before it builds the edge
newEdgeRejects(g, src_node, dst_node) ==
    \/ src_node = nil
    \/ dst_node = nil
    \/ nodes[src_node].graph # g
    \/ nodes[dst_node].graph # g

\* A NewEdge that does not link the former head of the incoming list back to
\* the new edge
NewEdgeWithin_noPrevIncoming(limit, g, src_node, dst_node) ==
    /\ Ready
    /\ IF newEdgeRejects(g, src_node, dst_node)
       THEN /\ ret' = [op |-> "NewEdge", err |-> TRUE, val |-> nil]
            /\ UNCHANGED <<graphs, nests, nodes, edges, fault>>
       ELSE LET src_first_out_edge == nodes[src_node].firstOutcomingEdge
                dst_first_in_edge == nodes[dst_node].firstIncomingEdge
                e == Len(edges) + 1
                edge_p == [id |-> graphs[g].edgeCount, graph |-> g,
                           srcNode |-> src_node, dstNode |-> dst_node,
                           nextOutcomingEdge |-> src_first_out_edge,
                           prevOutcomingEdge |-> nil,
                           nextIncomingEdge |-> dst_first_in_edge,
                           prevIncomingEdge |-> nil,
                           nextEdgeInNest |-> nil, prevEdgeInNest |-> nil,
                           nest |-> nil]
                edges1 == Append(edges, edge_p)
                edges2 == IF src_first_out_edge # nil
                          THEN [edges1 EXCEPT ![src_first_out_edge].prevOutcomingEdge = e]
                          ELSE edges1
                nodes1 == [nodes EXCEPT ![src_node].firstOutcomingEdge = e]
                edges3 == IF dst_first_in_edge # nil
                          THEN edges2
                          ELSE edges2
                nodes2 == [nodes1 EXCEPT ![dst_node].firstIncomingEdge = e]
                h == calcNestAndMoveToIt(
                         [Heap EXCEPT !.nodes = nodes2, !.edges = edges3], e)
            IN  /\ graphs[g].edgeCount < limit
                /\ Store(h)
                /\ graphs' = [graphs EXCEPT ![g].edgeCount = @ + 1]
                /\ ret' = [op |-> "NewEdge", err |-> FALSE, val |-> e]
    /\ UNCHANGED <<nestTrees, pc, mv, attrObjs>>

\* graph.go: Graph.NewEdge, on a graph that can take up to limit edges
NewEdgeWithin(limit, g, src_node, dst_node) ==
    /\ Ready
    /\ IF newEdgeRejects(g, src_node, dst_node)
       THEN /\ ret' = [op |-> "NewEdge", err |-> TRUE, val |-> nil]
            /\ UNCHANGED <<graphs, nests, nodes, edges, fault>>
       ELSE LET src_first_out_edge == nodes[src_node].firstOutcomingEdge
                dst_first_in_edge == nodes[dst_node].firstIncomingEdge
                e == Len(edges) + 1
                edge_p == [id |-> graphs[g].edgeCount, graph |-> g,
                           srcNode |-> src_node, dstNode |-> dst_node,
                           nextOutcomingEdge |-> src_first_out_edge,
                           prevOutcomingEdge |-> nil,
                           nextIncomingEdge |-> dst_first_in_edge,
                           prevIncomingEdge |-> nil,
                           nextEdgeInNest |-> nil, prevEdgeInNest |-> nil,
                           nest |-> nil]
                edges1 == Append(edges, edge_p)
                edges2 == IF src_first_out_edge # nil
                          THEN [edges1 EXCEPT ![src_first_out_edge].prevOutcomingEdge = e]
                          ELSE edges1
                nodes1 == [nodes EXCEPT ![src_node].firstOutcomingEdge = e]
                edges3 == IF dst_first_in_edge # nil
                          THEN [edges2 EXCEPT ![dst_first_in_edge].prevIncomingEdge = e]
                          ELSE edges2
                nodes2 == [nodes1 EXCEPT ![dst_node].firstIncomingEdge = e]
                h == calcNestAndMoveToIt(
                         [Heap EXCEPT !.nodes = nodes2, !.edges = edges3], e)
            IN  /\ graphs[g].edgeCount < limit
                /\ Store(h)
                /\ graphs' = [graphs EXCEPT ![g].edgeCount = @ + 1]
                /\ ret' = [op |-> "NewEdge", err |-> FALSE, val |-> e]
    /\ UNCHANGED <<nestTrees, pc, mv, attrObjs>>

NewEdge(g, src_node, dst_node) ==
    NewEdgeWithin(MaxEdges, g, src_node, dst_node)

\* ---- graph.go: Node.MoveToNest ------------------------------------------
\* Control reaches the loop over the outcoming edges of mv.node: the loop
\* variable is initialised and the condition "edge != nil" evaluated; when it
\* fails the call returns nil
enterOutcomingLoop(c, first_out_edge) ==
    IF first_out_edge # nil
    THEN [pc |-> "out_body", mv |-> [c EXCEPT !.edge = first_out_edge]]
    ELSE [pc |-> "idle", mv |-> noCall]

\* Control reaches the loop over the incoming edges: initialisation and the
\* condition "edge != nil"; when it fails the second loop is entered
enterIncomingLoop(c, first_in_edge, first_out_edge) ==
    IF first_in_edge # nil
    THEN [pc |-> "in_body", mv |-> [c EXCEPT !.edge = first_in_edge]]
    ELSE enterOutcomingLoop(c, first_out_edge)

\* A MoveToNest that does not compare the graph of the nest with the graph of
\* the node
MoveToNest_noGraphCheck(node, nest) ==
    /\ Ready
    /\ IF nodes[node].nest = nil
       THEN /\ Store(Panic(Heap, "MoveToNest: node without a nest"))
            /\ UNCHANGED <<pc, mv, ret>>
       ELSE LET h1 == removeNode(Heap, nodes[node].nest, node)
                h2 == [h1 EXCEPT !.nodes[node].nest = nest]
                h3 == addNode(h2, nest, node)
                c == [node |-> node, nest |-> nest, edge |-> nil,
                      from |-> nodes[node].nest]
                to == enterIncomingLoop(c, h3.nodes[node].firstIncomingEdge,
                                        h3.nodes[node].firstOutcomingEdge)
            IN  /\ Store(h3)
                /\ pc' = to.pc
                /\ mv' = to.mv
                /\ ret' = [op |-> "MoveToNest", err |-> FALSE, val |-> nil]
    /\ UNCHANGED <<graphs, nestTrees, attrObjs>>

\* The call up to the body of the first loop that has an edge to work on: the
\* checks and the move of the node between the membership lists.  A node
\* without edges is moved in this one step
MoveToNest(node, nest) ==
    /\ Ready
    /\ IF nestTrees[nests[nest].nestTree].baseGraph # nodes[node].graph
       THEN /\ ret' = [op |-> "MoveToNest", err |-> TRUE, val |-> nil]
            /\ UNCHANGED <<nests, nodes, edges, fault, pc, mv>>
       ELSE IF nodes[node].nest = nil
       THEN /\ Store(Panic(Heap, "MoveToNest: node without a nest"))
            /\ UNCHANGED <<pc, mv, ret>>
       ELSE LET h1 == removeNode(Heap, nodes[node].nest, node)
                h2 == [h1 EXCEPT !.nodes[node].nest = nest]
                h3 == addNode(h2, nest, node)
                c == [node |-> node, nest |-> nest, edge |-> nil,
                      from |-> nodes[node].nest]
                to == enterIncomingLoop(c, h3.nodes[node].firstIncomingEdge,
                                        h3.nodes[node].firstOutcomingEdge)
            IN  /\ Store(h3)
                /\ pc' = to.pc
                /\ mv' = to.mv
                /\ ret' = [op |-> "MoveToNest", err |-> FALSE, val |-> nil]
    /\ UNCHANGED <<graphs, nestTrees, attrObjs>>

\* The loop variable after the post statement of the loop over incoming
\* edges: "edge.GetNextIncomingEdge()" is a call whose result is dropped
postIncoming(E, edge) == edge

\* A loop body that puts the edge in the nest the node was moved to
MoveIncomingBody_intoTarget ==
    /\ pc = "in_body" /\ fault = "none"
    /\ LET h1 == removeEdge(Heap, edges[mv.edge].nest, mv.edge)
           h2 == [h1 EXCEPT !.edges[mv.edge].nest = mv.nest]
           h == addEdge(h2, mv.nest, mv.edge)
       IN  /\ Store(h)
           /\ mv' = mv
    /\ pc' = "in_cond"
    /\ UNCHANGED <<graphs, nestTrees, ret, attrObjs>>

\* Loop over the incoming edges: the body and the post statement
MoveIncomingBody ==
    /\ pc = "in_body" /\ fault = "none"
    /\ LET h == IF edges[mv.edge].nest = nil
                THEN Panic(Heap, "MoveToNest: incoming edge without a nest")
                ELSE calcNestAndMoveToIt(Heap, mv.edge)
       IN  /\ Store(h)
           /\ mv' = [mv EXCEPT !.edge = postIncoming(h.edges, mv.edge)]
    /\ pc' = "in_cond"
    /\ UNCHANGED <<graphs, nestTrees, ret, attrObjs>>

\* Loop over the incoming edges: the condition after an iteration
MoveIncomingCond ==
    /\ pc = "in_cond" /\ fault = "none"
    /\ LET to == enterIncomingLoop(mv, mv.edge, nodes[mv.node].firstOutcomingEdge)
       IN  /\ pc' = to.pc
           /\ mv' = to.mv
    /\ UNCHANGED <<structVars, ret, fault, attrObjs>>

\* The loop variable after the post statement of the loop over outcoming
\* edges: "edge.GetNextOutcomingEdge()" is a call whose result is dropped
postOutcoming(E, edge) == edge

\* Loop over the outcoming edges: the body and the post statement
MoveOutcomingBody ==
    /\ pc = "out_body" /\ fault = "none"
    /\ LET h == IF edges[mv.edge].nest = nil
                THEN Panic(Heap, "MoveToNest: outcoming edge without a nest")
                ELSE calcNestAndMoveToIt(Heap, mv.edge)
       IN  /\ Store(h)
           /\ mv' = [mv EXCEPT !.edge = postOutcoming(h.edges, mv.edge)]
    /\ pc' = "out_cond"
    /\ UNCHANGED <<graphs, nestTrees, ret, attrObjs>>

\* Loop over the outcoming edges: the condition after an iteration; when it
\* fails the call returns
MoveOutcomingCond ==
    /\ pc = "out_cond" /\ fault = "none"
    /\ LET to == enterOutcomingLoop(mv, mv.edge)
       IN  /\ pc' = to.pc
           /\ mv' = to.mv
    /\ UNCHANGED <<structVars, ret, fault, attrObjs>>

\* ---- attribute pools ---------------------------------------------------

\* A search that takes the last slot that is not allocated
firstFreeAttr_last(allocMap) ==
    IF \E i \in 1..Len(allocMap) : ~allocMap[i]
    THEN (CHOOSE i \in 1..Len(allocMap) :
              ~allocMap[i] /\ \A j \in (i + 1)..Len(allocMap) : allocMap[j]) - 1
    ELSE -1

\* "for i := 0; i < len(map); i++ { if map[i] == false ...": the number of the
\* first slot that is not allocated, -1 when the loop finds none
firstFreeAttr(allocMap) ==
    IF \E i \in 1..Len(allocMap) : ~allocMap[i]
    THEN (CHOOSE i \in 1..Len(allocMap) :
              ~allocMap[i] /\ \A j \in 1..(i - 1) : allocMap[j]) - 1
    ELSE -1

\* graph.go: Graph.NewGraphStrAttr
NewGraphStrAttr(g) ==
    /\ Ready
    /\ Len(graphAttrs) < 1 + MaxAttrs
    /\ LET i == firstFreeAttr(graphs[g].graphStrAttrAllocMap)
       IN  IF i # -1
           THEN /\ graphs' = [graphs EXCEPT ![g].graphStrAttrAllocMap[i + 1] = TRUE]
                /\ graphAttrs' = Append(graphAttrs,
                                        [attrNum |-> i, isValid |-> TRUE, graph |-> g])
                /\ ret' = [op |-> "NewGraphStrAttr", err |-> FALSE,
                           val |-> Len(graphAttrs) + 1]
           ELSE /\ ret' = [op |-> "NewGraphStrAttr", err |-> TRUE, val |-> invalidAttr]
                /\ UNCHANGED <<graphs, graphAttrs>>
    /\ UNCHANGED <<nestTrees, nests, nodes, edges, pc, mv, fault, nodeAttrs, nestAttrs>>

\* A NewNodeStrAttr that does not mark the slot it hands out as allocated
NewNodeStrAttr_noMark(g) ==
    /\ Ready
    /\ Len(nodeAttrs) < 1 + MaxAttrs
    /\ LET i == firstFreeAttr(graphs[g].nodeStrAttrAllocMap)
       IN  IF i # -1
           THEN /\ graphs' = graphs
                /\ nodeAttrs' = Append(nodeAttrs,
                                       [attrNum |-> i, isValid |-> TRUE, graph |-> g])
                /\ ret' = [op |-> "NewNodeStrAttr", err |-> FALSE,
                           val |-> Len(nodeAttrs) + 1]
           ELSE /\ ret' = [op |-> "NewNodeStrAttr", err |-> TRUE, val |-> invalidAttr]
                /\ UNCHANGED <<graphs, nodeAttrs>>
    /\ UNCHANGED <<nestTrees, nests, nodes, edges, pc, mv, fault, graphAttrs, nestAttrs>>

\* graph.go: Graph.NewNodeStrAttr
NewNodeStrAttr(g) ==
    /\ Ready
    /\ Len(nodeAttrs) < 1 + MaxAttrs
    /\ LET i == firstFreeAttr(graphs[g].nodeStrAttrAllocMap)
       IN  IF i # -1
           THEN /\ graphs' = [graphs EXCEPT ![g].nodeStrAttrAllocMap[i + 1] = TRUE]
                /\ nodeAttrs' = Append(nodeAttrs,
                                       [attrNum |-> i, isValid |-> TRUE, graph |-> g])
                /\ ret' = [op |-> "NewNodeStrAttr", err |-> FALSE,
                           val |-> Len(nodeAttrs) + 1]
           ELSE /\ ret' = [op |-> "NewNodeStrAttr", err |-> TRUE, val |-> invalidAttr]
                /\ UNCHANGED <<graphs, nodeAttrs>>
    /\ UNCHANGED <<nestTrees, nests, nodes, edges, pc, mv, fault, graphAttrs, nestAttrs>>

\* nest_tree.go: NestTree.NewNestStrAttr
NewNestStrAttr(nt) ==
    /\ Ready
    /\ Len(nestAttrs) < 1 + MaxAttrs
    /\ LET i == firstFreeAttr(nestTrees[nt].nestStrAttrAllocMap)
       IN  IF i # -1
           THEN /\ nestTrees' = [nestTrees EXCEPT ![nt].nestStrAttrAllocMap[i + 1] = TRUE]
                /\ nestAttrs' = Append(nestAttrs,
                                       [attr_num |-> i, is_valid |-> TRUE, nestTree |-> nt])
                /\ ret' = [op |-> "NewNestStrAttr", err |-> FALSE,
                           val |-> Len(nestAttrs) + 1]
           ELSE /\ ret' = [op |-> "NewNestStrAttr", err |-> TRUE, val |-> invalidAttr]
                /\ UNCHANGED <<nestTrees, nestAttrs>>
    /\ UNCHANGED <<graphs, nests, nodes, edges, pc, mv, fault, graphAttrs, nodeAttrs>>

\* A Graph.RemoveStrAttr that leaves the slot as it is
graphRemoveStrAttr_noClear(gr, attr) ==
    IF attr.attrNum + 1 \in 1..Len(gr.strAttrs)
    THEN [graph |-> gr, err |-> FALSE, fault |-> "none"]
    ELSE [graph |-> gr, err |-> FALSE, fault |-> "index out of range"]

\* A Graph.RemoveStrAttr that resets every slot of the graph
graphRemoveStrAttr_clearsAll(gr, attr) ==
    IF attr.attrNum + 1 \in 1..Len(gr.strAttrs)
    THEN [graph |-> [gr EXCEPT !.strAttrs = makeSlice(Len(gr.strAttrs), noVal)],
          err |-> FALSE, fault |-> "none"]
    ELSE [graph |-> gr, err |-> FALSE, fault |-> "index out of range"]

\* graph.go: Graph.RemoveStrAttr on a graph record: the two checks build an
\* error and drop it, so the slot is indexed whatever the handle is and the
\* call returns nil; an index outside the slice is a run-time panic
graphRemoveStrAttr(gr, attr) ==
    IF attr.attrNum + 1 \in 1..Len(gr.strAttrs)
    THEN [graph |-> [gr EXCEPT !.strAttrs[attr.attrNum + 1].isSet = FALSE],
          err |-> FALSE, fault |-> "none"]
    ELSE [graph |-> gr, err |-> FALSE, fault |-> "index out of range"]

\* A ReleaseGraphStrAttr that frees the slot and leaves the handle as it is
ReleaseGraphStrAttr_keepsHandle(g, attr) ==
    /\ Ready
    /\ IF ~graphAttrs[attr].isValid \/ graphAttrs[attr].graph # g
       THEN /\ ret' = [op |-> "ReleaseGraphStrAttr", err |-> TRUE, val |-> nil]
            /\ UNCHANGED <<graphs, graphAttrs, fault>>
       ELSE LET attr_num == graphAttrs[attr].attrNum
                rm == graphRemoveStrAttr(graphs[g], graphAttrs[attr])
            IN  IF rm.fault # "none"
                THEN /\ fault' = rm.fault
                     /\ UNCHANGED <<graphs, graphAttrs, ret>>
                ELSE /\ graphs' = [graphs EXCEPT
                                      ![g] = [rm.graph EXCEPT
                                                 !.graphStrAttrAllocMap[attr_num + 1] = FALSE]]
                     /\ ret' = [op |-> "ReleaseGraphStrAttr", err |-> FALSE, val |-> nil]
                     /\ UNCHANGED <<graphAttrs, fault>>
    /\ UNCHANGED <<nestTrees, nests, nodes, edges, pc, mv, nodeAttrs, nestAttrs>>

\* graph.go: Graph.ReleaseGraphStrAttr
ReleaseGraphStrAttr(g, attr) ==
    /\ Ready
    /\ IF ~graphAttrs[attr].isValid \/ graphAttrs[attr].graph # g
       THEN /\ ret' = [op |-> "ReleaseGraphStrAttr", err |-> TRUE, val |-> nil]
            /\ UNCHANGED <<graphs, graphAttrs, fault>>
       ELSE LET attr_num == graphAttrs[attr].attrNum
                rm == graphRemoveStrAttr(graphs[g], graphAttrs[attr])
            IN  IF rm.fault # "none"
                THEN /\ fault' = rm.fault
                     /\ UNCHANGED <<graphs, graphAttrs, ret>>
                ELSE /\ graphs' = [graphs EXCEPT
                                      ![g] = [rm.graph EXCEPT
                                                 !.graphStrAttrAllocMap[attr_num + 1] = FALSE]]
                     /\ graphAttrs' = [graphAttrs EXCEPT ![attr] = graph_str_attr_invalid]
                     /\ ret' = [op |-> "ReleaseGraphStrAttr", err |-> FALSE, val |-> nil]
                     /\ UNCHANGED fault
    /\ UNCHANGED <<nestTrees, nests, nodes, edges, pc, mv, nodeAttrs, nestAttrs>>

\* nest_tree.go: the loop of Nest.GetNextNest that climbs to the first nest
\* with a next sibling and returns that sibling
RECURSIVE climbToNextSibling(_, _)
climbToNextSibling(N, nest) ==
    IF nest # nil /\ N[nest].nextSiblingNest = nil
    THEN climbToNextSibling(N, N[nest].parentNest)
    ELSE IF nest # nil THEN N[nest].nextSiblingNest ELSE nil

\* A GetNextNest that never goes to the next sibling of the nest itself
GetNextNest_noSibling(N, nest) ==
    IF N[nest].firstChildNest # nil THEN N[nest].firstChildNest
    ELSE climbToNextSibling(N, N[nest].parentNest)

\* nest_tree.go: Nest.GetNextNest
GetNextNest(N, nest) ==
    IF N[nest].firstChildNest # nil THEN N[nest].firstChildNest
    ELSE IF N[nest].nextSiblingNest # nil THEN N[nest].nextSiblingNest
    ELSE climbToNextSibling(N, N[nest].parentNest)

\* The result of a call that reads a field through a nil pointer: the Go
\* run time stops the program with a nil pointer dereference
nilDereference == -1

\* "for prev_nest.lastChildNest != nil { prev_nest = prev_nest.lastChildNest }"
RECURSIVE descendToLastChild(_, _)
descendToLastChild(N, prev_nest) ==
    IF N[prev_nest].lastChildNest # nil
    THEN descendToLastChild(N, N[prev_nest].lastChildNest)
    ELSE prev_nest

\* A GetPrevNest that returns the parent whether or not a sibling precedes
GetPrevNest_parentOnly(N, nest) ==
    IF nest = nil THEN nilDereference
    ELSE N[nest].parentNest

\* A GetPrevNest that returns nothing for a nest without a previous sibling
GetPrevNest_noParent(N, nest) ==
    IF nest = nil THEN nilDereference
    ELSE IF N[nest].prevSiblingNest = nil THEN nil
    ELSE descendToLastChild(N, N[nest].prevSiblingNest)

\* nest_tree.go: Nest.GetPrevNest
GetPrevNest(N, nest) ==
    IF nest = nil THEN nilDereference
    ELSE IF N[nest].prevSiblingNest = nil THEN N[nest].parentNest
    ELSE descendToLastChild(N, N[nest].prevSiblingNest)

\* A search for the next nest with nodes that takes the nest it is given
skipEmptyNests_noSkip(N, nest) ==
    nest

\* "for nest != nil && nest.firstNode == nil { nest = nest.GetNextNest() }"
RECURSIVE skipEmptyNests(_, _)
skipEmptyNests(N, nest) ==
    IF nest # nil /\ N[nest].firstNode = nil
    THEN skipEmptyNests(N, GetNextNest(N, nest))
    ELSE nest

\* graph.go: Graph.GetFirstNode
GetFirstNode(g) ==
    LET nest == skipEmptyNests(nests, nestTrees[graphs[g].nestTree].rootNest)
    IN  IF nest = nil THEN nil ELSE nests[nest].firstNode

\* A GetNextNode that stops at the end of the node's nest
GetNextNode_sameNest(node) ==
    nodes[node].nextNodeInNest

\* graph.go: Node.GetNextNode
GetNextNode(node) ==
    IF nodes[node].nextNodeInNest # nil THEN nodes[node].nextNodeInNest
    ELSE LET nest == skipEmptyNests(nests, GetNextNest(nests, nodes[node].nest))
         IN  IF nest = nil THEN nil ELSE nests[nest].firstNode

\* "for nest != nil && nest.lastNode == nil { nest = nest.GetPrevNest() }"
RECURSIVE skipEmptyNestsBack(_, _)
skipEmptyNestsBack(N, nest) ==
    IF nest # nil /\ N[nest].lastNode = nil
    THEN skipEmptyNestsBack(N, GetPrevNest(N, nest))
    ELSE nest

\* A GetPrevNode that takes the previous nest whether or not it has nodes
GetPrevNode_noSkip(node) ==
    IF nodes[node].prevNodeInNest # nil THEN nodes[node].prevNodeInNest
    ELSE LET nest == GetPrevNest(nests, nodes[node].nest)
         IN  IF nest = nil THEN nil ELSE nests[nest].lastNode

\* graph.go: Node.GetPrevNode; a node always has a nest (NewNode puts it in
\* the root nest and MoveToNest replaces one nest by another)
GetPrevNode(node) ==
    IF nodes[node].prevNodeInNest # nil THEN nodes[node].prevNodeInNest
    ELSE LET nest == skipEmptyNestsBack(nests, GetPrevNest(nests, nodes[node].nest))
         IN  IF nest = nil THEN nil ELSE nests[nest].lastNode

\* graph.go: Node.RemoveStrAttr on a node record: as for a graph, the two
\* checks build an error and drop it
nodeRemoveStrAttr(nd, attr) ==
    IF attr.attrNum + 1 \in 1..Len(nd.strAttrs)
    THEN [node |-> [nd EXCEPT !.strAttrs[attr.attrNum + 1].isSet = FALSE],
          err |-> FALSE, fault |-> "none"]
    ELSE [node |-> nd, err |-> FALSE, fault |-> "index out of range"]

\* The loop of ReleaseNodeStrAttr from a node on: the nodes after the removals
\* and the fault that stopped it, if any
RECURSIVE removeFromNodes(_, _, _)
removeFromNodes(NN, node, attr) ==
    IF node = nil THEN [nodes |-> NN, fault |-> "none"]
    ELSE LET rm == nodeRemoveStrAttr(NN[node], attr)
         IN  IF rm.fault # "none" THEN [nodes |-> NN, fault |-> rm.fault]
             ELSE removeFromNodes([NN EXCEPT ![node] = rm.node], GetNextNode(node), attr)

\* graph.go: Graph.ReleaseNodeStrAttr
ReleaseNodeStrAttr(g, attr) ==
    /\ Ready
    /\ IF ~nodeAttrs[attr].isValid \/ nodeAttrs[attr].graph # g
       THEN /\ ret' = [op |-> "ReleaseNodeStrAttr", err |-> TRUE, val |-> nil]
            /\ UNCHANGED <<graphs, nodes, nodeAttrs, fault>>
       ELSE LET attr_num == nodeAttrs[attr].attrNum
                rm == removeFromNodes(nodes, GetFirstNode(g), nodeAttrs[attr])
            IN  IF rm.fault # "none"
                THEN /\ fault' = rm.fault
                     /\ nodes' = rm.nodes
                     /\ UNCHANGED <<graphs, nodeAttrs, ret>>
                ELSE /\ nodes' = rm.nodes
                     /\ graphs' = [graphs EXCEPT ![g].nodeStrAttrAllocMap[attr_num + 1] = FALSE]
                     /\ nodeAttrs' = [nodeAttrs EXCEPT ![attr] = node_str_attr_invalid]
                     /\ ret' = [op |-> "ReleaseNodeStrAttr", err |-> FALSE, val |-> nil]
                     /\ UNCHANGED fault
    /\ UNCHANGED <<nestTrees, nests, edges, pc, mv, graphAttrs, nestAttrs>>

\* ---- attribute values --------------------------------------------------

\* What a call returns: the value, the error (msg is the text given to
\* errors.New, "" for a nil error) and the run-time panic that ended it
Returned(val, msg) == [val |-> val, err |-> msg # "", msg |-> msg, fault |-> "none"]
Panicked(val) == [val |-> val, err |-> FALSE, msg |-> "", fault |-> "index out of range"]

\* s[i] of a Go slice: i counts from 0
InRange(slice, i) == i + 1 \in 1..Len(slice)

\* graph.go: Graph.IsStrAttrSet on the graph g with record gr
graphIsStrAttrSet(gr, g, attr) ==
    IF ~attr.isValid THEN Returned(FALSE, "The attribute is invalid")
    ELSE IF attr.graph # g THEN Returned(FALSE, "The attribute doesn't belong to the graph")
    ELSE IF ~InRange(gr.strAttrs, attr.attrNum) THEN Panicked(FALSE)
    ELSE Returned(gr.strAttrs[attr.attrNum + 1].isSet, "")

\* graph.go: Graph.SetStrAttrVal: val is the graph record after the call
graphSetStrAttrVal(gr, g, attr, val) ==
    IF attr.isValid = FALSE THEN Returned(gr, "The attribute is invalid")
    ELSE IF attr.graph # g THEN Returned(gr, "The attribute doesn't belong to the graph")
    ELSE IF ~InRange(gr.strAttrs, attr.attrNum) THEN Panicked(gr)
    ELSE Returned([gr EXCEPT !.strAttrs[attr.attrNum + 1] =
                                 [isSet |-> TRUE, data |-> val]], "")

\* graph.go: Graph.GetStrAttrVal
graphGetStrAttrVal(gr, g, attr) ==
    IF ~attr.isValid THEN Returned("", "The attribute is invalid")
    ELSE IF attr.graph # g THEN Returned("", "The attribute doesn't belong to the graph")
    ELSE IF ~InRange(gr.strAttrs, attr.attrNum) THEN Panicked("")
    ELSE IF ~gr.strAttrs[attr.attrNum + 1].isSet
    THEN Returned("", "The attribute is not set for the graph")
    ELSE Returned(gr.strAttrs[attr.attrNum + 1].data, "")

\* graph.go: Node.IsStrAttrSet on a node record and a handle
nodeIsStrAttrSet(nd, attr) ==
    IF ~attr.isValid THEN Returned(FALSE, "The attribute is invalid")
    ELSE IF attr.graph # nd.graph
    THEN Returned(FALSE, "The attribute and the node belong to different graphs")
    ELSE IF ~InRange(nd.strAttrs, attr.attrNum) THEN Panicked(FALSE)
    ELSE Returned(nd.strAttrs[attr.attrNum + 1].isSet, "")

\* graph.go: Node.SetStrAttrVal: val is the node record after the call
nodeSetStrAttrVal(nd, attr, val) ==
    IF attr.isValid = FALSE THEN Returned(nd, "The attribute is invalid")
    ELSE IF attr.graph # nd.graph
    THEN Returned(nd, "The attribute and the node belong to different graphs")
    ELSE IF ~InRange(nd.strAttrs, attr.attrNum) THEN Panicked(nd)
    ELSE Returned([nd EXCEPT !.strAttrs[attr.attrNum + 1] =
                                 [isSet |-> TRUE, data |-> val]], "")

\* graph.go: Node.GetStrAttrVal
nodeGetStrAttrVal(nd, attr) ==
    IF ~attr.isValid THEN Returned("", "The attribute is invalid")
    ELSE IF attr.graph # nd.graph
    THEN Returned("", "The attribute and the node belong to different graphs")
    ELSE IF ~InRange(nd.strAttrs, attr.attrNum) THEN Panicked("")
    ELSE IF ~nd.strAttrs[attr.attrNum + 1].isSet
    THEN Returned("", "The attribute is not set for the node")
    ELSE Returned(nd.strAttrs[attr.attrNum + 1].data, "")

\* nest_tree.go: Nest.IsStrAttrSet
nestIsStrAttrSet(nest, attr) ==
    IF ~attr.is_valid THEN Returned(FALSE, "The attribute is invalid")
    ELSE IF attr.nestTree # nest.nestTree
    THEN Returned(FALSE, "The attribute and the nest belong to different nest trees")
    ELSE IF ~InRange(nest.strAttrs, attr.attr_num) THEN Panicked(FALSE)
    ELSE Returned(nest.strAttrs[attr.attr_num + 1].isSet, "")

\* A Nest.SetStrAttrVal without the check of the handle's tree
nestSetStrAttrVal_noTreeCheck(nest, attr, val) ==
    IF attr.is_valid = FALSE THEN Returned(nest, "The attribute is invalid")
    ELSE IF ~InRange(nest.strAttrs, attr.attr_num) THEN Panicked(nest)
    ELSE Returned([nest EXCEPT !.strAttrs[attr.attr_num + 1] =
                                   [isSet |-> TRUE, data |-> val]], "")

\* nest_tree.go: Nest.SetStrAttrVal: val is the nest record after the call
nestSetStrAttrVal(nest, attr, val) ==
    IF attr.is_valid = FALSE THEN Returned(nest, "The attribute is invalid")
    ELSE IF attr.nestTree # nest.nestTree
    THEN Returned(nest, "The attribute and the nest belong to different nest trees")
    ELSE IF ~InRange(nest.strAttrs, attr.attr_num) THEN Panicked(nest)
    ELSE Returned([nest EXCEPT !.strAttrs[attr.attr_num + 1] =
                                   [isSet |-> TRUE, data |-> val]], "")

\* nest_tree.go: Nest.GetStrAttrVal
nestGetStrAttrVal(nest, attr) ==
    IF ~attr.is_valid THEN Returned("", "The attribute is invalid")
    ELSE IF attr.nestTree # nest.nestTree
    THEN Returned("", "The attribute and the nest belong to different nest trees")
    ELSE IF ~InRange(nest.strAttrs, attr.attr_num) THEN Panicked("")
    ELSE IF ~nest.strAttrs[attr.attr_num + 1].isSet
    THEN Returned("", "The attribute is not set for the nest")
    ELSE Returned(nest.strAttrs[attr.attr_num + 1].data, "")

\* nest_tree.go: Nest.RemoveStrAttr on a nest record: the two checks build an
\* error and drop it
nestRemoveStrAttr(nest, attr) ==
    IF InRange(nest.strAttrs, attr.attr_num)
    THEN [nest |-> [nest EXCEPT !.strAttrs[attr.attr_num + 1].isSet = FALSE],
          err |-> FALSE, fault |-> "none"]
    ELSE [nest |-> nest, err |-> FALSE, fault |-> "index out of range"]

\* What the caller of an attribute operation sees
Returns(op, r) ==
    IF r.fault # "none"
    THEN fault' = r.fault /\ UNCHANGED ret
    ELSE /\ ret' = [op |-> op, err |-> r.err, val |-> r.val, msg |-> r.msg]
         /\ UNCHANGED fault

\* graph.go: Graph.IsStrAttrSet
GraphIsStrAttrSet(g, attr) ==
    /\ Ready
    /\ Returns("GraphIsStrAttrSet", graphIsStrAttrSet(graphs[g], g, graphAttrs[attr]))
    /\ UNCHANGED <<structVars, pc, mv, attrObjs>>

\* graph.go: Graph.GetStrAttrVal
GraphGetStrAttrVal(g, attr) ==
    /\ Ready
    /\ Returns("GraphGetStrAttrVal", graphGetStrAttrVal(graphs[g], g, graphAttrs[attr]))
    /\ UNCHANGED <<structVars, pc, mv, attrObjs>>

\* graph.go: Graph.SetStrAttrVal
GraphSetStrAttrVal(g, attr, val) ==
    /\ Ready
    /\ LET r == graphSetStrAttrVal(graphs[g], g, graphAttrs[attr], val)
       IN  /\ graphs' = [graphs EXCEPT ![g] = r.val]
           /\ Returns("GraphSetStrAttrVal", [r EXCEPT !.val = nil])
    /\ UNCHANGED <<nestTrees, nests, nodes, edges, pc, mv, attrObjs>>

\* graph.go: Graph.RemoveStrAttr
GraphRemoveStrAttr(g, attr) ==
    /\ Ready
    /\ LET rm == graphRemoveStrAttr(graphs[g], graphAttrs[attr])
       IN  /\ graphs' = [graphs EXCEPT ![g] = rm.graph]
           /\ Returns("GraphRemoveStrAttr",
                      [val |-> nil, err |-> rm.err, msg |-> "", fault |-> rm.fault])
    /\ UNCHANGED <<nestTrees, nests, nodes, edges, pc, mv, attrObjs>>

\* graph.go: Node.IsStrAttrSet
NodeIsStrAttrSet(node, attr) ==
    /\ Ready
    /\ Returns("NodeIsStrAttrSet", nodeIsStrAttrSet(nodes[node], nodeAttrs[attr]))
    /\ UNCHANGED <<structVars, pc, mv, attrObjs>>

\* graph.go: Node.GetStrAttrVal
NodeGetStrAttrVal(node, attr) ==
    /\ Ready
    /\ Returns("NodeGetStrAttrVal", nodeGetStrAttrVal(nodes[node], nodeAttrs[attr]))
    /\ UNCHANGED <<structVars, pc, mv, attrObjs>>

\* graph.go: Node.SetStrAttrVal
NodeSetStrAttrVal(node, attr, val) ==
    /\ Ready
    /\ LET r == nodeSetStrAttrVal(nodes[node], nodeAttrs[attr], val)
       IN  /\ nodes' = [nodes EXCEPT ![node] = r.val]
           /\ Returns("NodeSetStrAttrVal", [r EXCEPT !.val = nil])
    /\ UNCHANGED <<graphs, nestTrees, nests, edges, pc, mv, attrObjs>>

\* graph.go: Node.RemoveStrAttr
NodeRemoveStrAttr(node, attr) ==
    /\ Ready
    /\ LET rm == nodeRemoveStrAttr(nodes[node], nodeAttrs[attr])
       IN  /\ nodes' = [nodes EXCEPT ![node] = rm.node]
           /\ Returns("NodeRemoveStrAttr",
                      [val |-> nil, err |-> rm.err, msg |-> "", fault |-> rm.fault])
    /\ UNCHANGED <<graphs, nestTrees, nests, edges, pc, mv, attrObjs>>

\* nest_tree.go: Nest.IsStrAttrSet
NestIsStrAttrSet(nest, attr) ==
    /\ Ready
    /\ Returns("NestIsStrAttrSet", nestIsStrAttrSet(nests[nest], nestAttrs[attr]))
    /\ UNCHANGED <<structVars, pc, mv, attrObjs>>

\* nest_tree.go: Nest.GetStrAttrVal
NestGetStrAttrVal(nest, attr) ==
    /\ Ready
    /\ Returns("NestGetStrAttrVal", nestGetStrAttrVal(nests[nest], nestAttrs[attr]))
    /\ UNCHANGED <<structVars, pc, mv, attrObjs>>

\* nest_tree.go: Nest.SetStrAttrVal
NestSetStrAttrVal(nest, attr, val) ==
    /\ Ready
    /\ LET r == nestSetStrAttrVal(nests[nest], nestAttrs[attr], val)
       IN  /\ nests' = [nests EXCEPT ![nest] = r.val]
           /\ Returns("NestSetStrAttrVal", [r EXCEPT !.val = nil])
    /\ UNCHANGED <<graphs, nestTrees, nodes, edges, pc, mv, attrObjs>>

\* nest_tree.go: Nest.RemoveStrAttr
NestRemoveStrAttr(nest, attr) ==
    /\ Ready
    /\ LET rm == nestRemoveStrAttr(nests[nest], nestAttrs[attr])
       IN  /\ nests' = [nests EXCEPT ![nest] = rm.nest]
           /\ Returns("NestRemoveStrAttr",
                      [val |-> nil, err |-> rm.err, msg |-> "", fault |-> rm.fault])
    /\ UNCHANGED <<graphs, nestTrees, nodes, edges, pc, mv, attrObjs>>

\* The loop of ReleaseNestStrAttr from a nest on: the nests after the removals
\* and the fault that stopped it, if any
RECURSIVE removeFromNests(_, _, _)
removeFromNests(N, nest, attr) ==
    IF nest = nil THEN [nests |-> N, fault |-> "none"]
    ELSE LET rm == nestRemoveStrAttr(N[nest], attr)
         IN  IF rm.fault # "none" THEN [nests |-> N, fault |-> rm.fault]
             ELSE removeFromNests([N EXCEPT ![nest] = rm.nest], GetNextNest(N, nest), attr)

\* nest_tree.go: NestTree.ReleaseNestStrAttr
ReleaseNestStrAttr(nt, attr) ==
    /\ Ready
    /\ IF ~nestAttrs[attr].is_valid \/ nestAttrs[attr].nestTree # nt
       THEN /\ ret' = [op |-> "ReleaseNestStrAttr", err |-> TRUE, val |-> nil]
            /\ UNCHANGED <<nestTrees, nests, nestAttrs, fault>>
       ELSE LET attr_num == nestAttrs[attr].attr_num
                rm == removeFromNests(nests, nestTrees[nt].rootNest, nestAttrs[attr])
            IN  IF rm.fault # "none"
                THEN /\ fault' = rm.fault
                     /\ nests' = rm.nests
                     /\ UNCHANGED <<nestTrees, nestAttrs, ret>>
                ELSE /\ nests' = rm.nests
                     /\ nestTrees' = [nestTrees EXCEPT
                                         ![nt].nestStrAttrAllocMap[attr_num + 1] = FALSE]
                     /\ nestAttrs' = [nestAttrs EXCEPT ![attr] = nest_str_attr_invalid]
                     /\ ret' = [op |-> "ReleaseNestStrAttr", err |-> FALSE, val |-> nil]
                     /\ UNCHANGED fault
    /\ UNCHANGED <<graphs, nodes, edges, pc, mv, graphAttrs, nodeAttrs>>

MoveStep ==
    \/ MoveIncomingCond
    \/ MoveIncomingBody
    \/ MoveOutcomingCond
    \/ MoveOutcomingBody

Next ==
    \/ NewNode(G)
    \/ NewNest(graphs[G].nestTree)
    \/ \E s, d \in 0..Len(nodes) : NewEdge(G, s, d)
    \/ \E n \in 1..Len(nodes) : \E t \in 1..Len(nests) : MoveToNest(n, t)
    \/ MoveStep

Spec == Init /\ [][Next]_vars

\* The allocation and the release of attribute slots in the three pools
NextPool ==
    \/ \E g \in Graphs : NewGraphStrAttr(g)
    \/ \E g \in Graphs : NewNodeStrAttr(g)
    \/ \E nt \in Graphs : NewNestStrAttr(nt)
    \/ \E g \in Graphs : \E a \in 1..Len(graphAttrs) : ReleaseGraphStrAttr(g, a)
    \/ \E g \in Graphs : \E a \in 1..Len(nodeAttrs) : ReleaseNodeStrAttr(g, a)
    \/ NewNode(G)

SpecPool == Init /\ [][NextPool]_vars

\* Node attributes on a graph that nodes and edges are added to
NextAttr ==
    \/ NewNode(G)
    \/ \E s, d \in 0..Len(nodes) : NewEdge(G, s, d)
    \/ NewNodeStrAttr(G)
    \/ \E n \in 1..Len(nodes) : \E a \in 1..Len(nodeAttrs) : \E v \in Values :
           NodeSetStrAttrVal(n, a, v)

SpecAttr == Init /\ [][NextAttr]_vars

\* The nodes, nests and node attribute handles made on G so far
nodeAttrCreated ==
    graphs[G].nodeCount + (nestTrees[graphs[G].nestTree].nestCount - 1)
        + (Len(nodeAttrs) - 1)

\* Node attributes on a graph whose nodes are spread over the nests
NextNodeAttr ==
    \/ nodeAttrCreated < MaxCreated /\ NewNode(G)
    \/ nodeAttrCreated < MaxCreated /\ NewNest(graphs[G].nestTree)
    \/ \E n \in {m \in 1..Len(nodes) : nodes[m].graph = G} :
           \E t \in {u \in 1..Len(nests) : nests[u].nestTree = graphs[G].nestTree} :
               MoveToNest(n, t)
    \/ nodeAttrCreated < MaxCreated /\ NewNodeStrAttr(G)
    \/ \E n \in 1..Len(nodes) : \E a \in 1..Len(nodeAttrs) : \E v \in Values :
           NodeSetStrAttrVal(n, a, v)
    \/ \E a \in 1..Len(nodeAttrs) : ReleaseNodeStrAttr(G, a)

SpecNodeAttr == Init /\ [][NextNodeAttr]_vars

\* Nest attributes on a tree that nests are added to
NextNestAttr ==
    \/ NewNest(graphs[G].nestTree)
    \/ \E nt \in Graphs : NewNestStrAttr(nt)
    \/ \E t \in 1..Len(nests) : \E a \in 1..Len(nestAttrs) : \E v \in Values :
           NestSetStrAttrVal(t, a, v)
    \/ \E t \in 1..Len(nests) : \E a \in 1..Len(nestAttrs) : NestGetStrAttrVal(t, a)
    \/ \E t \in 1..Len(nests) : \E a \in 1..Len(nestAttrs) : NestIsStrAttrSet(t, a)
    \/ \E t \in 1..Len(nests) : \E a \in 1..Len(nestAttrs) : NestRemoveStrAttr(t, a)
    \/ \E nt \in Graphs : \E a \in 1..Len(nestAttrs) : ReleaseNestStrAttr(nt, a)

SpecNestAttr == Init /\ [][NextNestAttr]_vars

\* The nodes and nests made on G and the handles made in the three arenas so far
attrCreated ==
    graphs[G].nodeCount + (nestTrees[graphs[G].nestTree].nestCount - 1)
        + (Len(graphAttrs) - 1) + (Len(nodeAttrs) - 1) + (Len(nestAttrs) - 1)

\* Set, get and isSet on graphs, nodes and nests with every handle there is
NextHandles ==
    \/ attrCreated < MaxCreated /\ NewNode(G)
    \/ attrCreated < MaxCreated /\ NewNest(graphs[G].nestTree)
    \/ \E g \in Graphs : attrCreated < MaxCreated /\ NewGraphStrAttr(g)
    \/ \E g \in Graphs : attrCreated < MaxCreated /\ NewNodeStrAttr(g)
    \/ \E nt \in Graphs : attrCreated < MaxCreated /\ NewNestStrAttr(nt)
    \/ \E g \in Graphs : \E a \in 1..Len(graphAttrs) : \E v \in Values :
           GraphSetStrAttrVal(g, a, v)
    \/ \E g \in Graphs : \E a \in 1..Len(graphAttrs) : GraphGetStrAttrVal(g, a)
    \/ \E g \in Graphs : \E a \in 1..Len(graphAttrs) : GraphIsStrAttrSet(g, a)
    \/ \E n \in 1..Len(nodes) : \E a \in 1..Len(nodeAttrs) : \E v \in Values :
           NodeSetStrAttrVal(n, a, v)
    \/ \E n \in 1..Len(nodes) : \E a \in 1..Len(nodeAttrs) : NodeGetStrAttrVal(n, a)
    \/ \E n \in 1..Len(nodes) : \E a \in 1..Len(nodeAttrs) : NodeIsStrAttrSet(n, a)
    \/ \E t \in 1..Len(nests) : \E a \in 1..Len(nestAttrs) : \E v \in Values :
           NestSetStrAttrVal(t, a, v)
    \/ \E t \in 1..Len(nests) : \E a \in 1..Len(nestAttrs) : NestGetStrAttrVal(t, a)
    \/ \E t \in 1..Len(nests) : \E a \in 1..Len(nestAttrs) : NestIsStrAttrSet(t, a)

SpecHandles == Init /\ [][NextHandles]_vars

\* Set, get, isSet and remove on graphs, nodes and nests with every handle
NextRemove ==
    \/ NextHandles
    \/ \E g \in Graphs : \E a \in 1..Len(graphAttrs) : GraphRemoveStrAttr(g, a)
    \/ \E n \in 1..Len(nodes) : \E a \in 1..Len(nodeAttrs) : NodeRemoveStrAttr(n, a)
    \/ \E t \in 1..Len(nests) : \E a \in 1..Len(nestAttrs) : NestRemoveStrAttr(t, a)

SpecRemove == Init /\ [][NextRemove]_vars

\* Graph and node attributes that are set, read back, released and allocated
\* again
NextRoundTrip ==
    \/ attrCreated < MaxTripObjects /\ NewNode(G)
    \/ attrCreated < MaxTripObjects /\ NewGraphStrAttr(G)
    \/ attrCreated < MaxTripObjects /\ NewNodeStrAttr(G)
    \/ \E a \in 1..Len(graphAttrs) : \E v \in RoundTripValues : GraphSetStrAttrVal(G, a, v)
    \/ \E a \in 1..Len(graphAttrs) : GraphGetStrAttrVal(G, a)
    \/ \E n \in 1..Len(nodes) : \E a \in 1..Len(nodeAttrs) : \E v \in RoundTripValues :
           NodeSetStrAttrVal(n, a, v)
    \/ \E n \in 1..Len(nodes) : \E a \in 1..Len(nodeAttrs) : NodeGetStrAttrVal(n, a)
    \/ \E a \in 1..Len(graphAttrs) : ReleaseGraphStrAttr(G, a)
    \/ \E a \in 1..Len(nodeAttrs) : ReleaseNodeStrAttr(G, a)

SpecRoundTrip == Init /\ [][NextRoundTrip]_vars

\* Handles that are released and used again, next to handles allocated after
\* them; the handles used are the ones a successful allocation returned
NextReleased ==
    \/ attrCreated < MaxTripObjects /\ NewNode(G)
    \/ attrCreated < MaxTripObjects /\ NewGraphStrAttr(G)
    \/ attrCreated < MaxTripObjects /\ NewNodeStrAttr(G)
    \/ attrCreated < MaxTripObjects /\ NewNestStrAttr(graphs[G].nestTree)
    \/ \E a \in 2..Len(graphAttrs) : \E v \in Values : GraphSetStrAttrVal(G, a, v)
    \/ \E a \in 2..Len(graphAttrs) : GraphGetStrAttrVal(G, a)
    \/ \E a \in 2..Len(graphAttrs) : GraphIsStrAttrSet(G, a)
    \/ \E n \in 1..Len(nodes) : \E a \in 2..Len(nodeAttrs) : \E v \in Values :
           NodeSetStrAttrVal(n, a, v)
    \/ \E n \in 1..Len(nodes) : \E a \in 2..Len(nodeAttrs) : NodeGetStrAttrVal(n, a)
    \/ \E n \in 1..Len(nodes) : \E a \in 2..Len(nodeAttrs) : NodeIsStrAttrSet(n, a)
    \/ \E a \in 2..Len(graphAttrs) : ReleaseGraphStrAttr(G, a)
    \/ \E a \in 2..Len(nodeAttrs) : ReleaseNodeStrAttr(G, a)
    \/ \E a \in 2..Len(nestAttrs) : ReleaseNestStrAttr(graphs[G].nestTree, a)

SpecReleased == Init /\ [][NextReleased]_vars

\* The nodes, child nests and edges made on G so far
structCreated ==
    graphs[G].nodeCount + (nestTrees[graphs[G].nestTree].nestCount - 1)
        + graphs[G].edgeCount

\* The structure of a graph that the traversals go over: every operation of
\* Next, on a graph of a few objects
NextWalk ==
    \/ structCreated < MaxWalkObjects /\ NewNode(G)
    \/ structCreated < MaxWalkObjects /\ NewNest(graphs[G].nestTree)
    \/ structCreated < MaxWalkObjects /\ \E s, d \in 0..Len(nodes) : NewEdge(G, s, d)
    \/ \E n \in 1..Len(nodes) : \E t \in 1..Len(nests) : MoveToNest(n, t)
    \/ MoveStep

SpecWalk == Init /\ [][NextWalk]_vars

\* The nodes, child nests, edges and node attribute handles made on G so far
moveCreated ==
    structCreated + (Len(nodeAttrs) - 1)

\* Moves of nodes that have edges and attribute values
NextMove ==
    \/ moveCreated < MaxMoveObjects /\ NewNode(G)
    \/ moveCreated < MaxMoveObjects /\ NewNest(graphs[G].nestTree)
    \/ moveCreated < MaxMoveObjects /\ \E s, d \in 1..Len(nodes) : NewEdge(G, s, d)
    \/ moveCreated < MaxMoveObjects /\ NewNodeStrAttr(G)
    \/ \E n \in 1..Len(nodes) : \E a \in 1..Len(nodeAttrs) : \E v \in Values :
           NodeSetStrAttrVal(n, a, v)
    \/ \E n \in 1..Len(nodes) : \E t \in 1..Len(nests) : MoveToNest(n, t)
    \/ MoveStep

SpecMove == Init /\ [][NextMove]_vars

\* Edges, loops among them, between nodes that were put in their nests before
\* they got an edge
NextLoop ==
    \/ structCreated < MaxLoopObjects /\ NewNode(G)
    \/ structCreated < MaxLoopObjects /\ NewNest(graphs[G].nestTree)
    \/ \E n \in 1..Len(nodes) : \E t \in 1..Len(nests) :
           /\ nodes[n].firstIncomingEdge = nil
           /\ nodes[n].firstOutcomingEdge = nil
           /\ MoveToNest(n, t)
    \/ structCreated < MaxLoopObjects
           /\ \E s, d \in 0..Len(nodes) : NewEdgeWithin(MaxAdjEdges, G, s, d)

SpecLoop == Init /\ [][NextLoop]_vars

\* Edges between the nodes of a graph, parallel edges and loops included
NextEdges ==
    \/ NewNode(G)
    \/ \E s, d \in 0..Len(nodes) : NewEdgeWithin(MaxAdjEdges, G, s, d)

SpecEdges == Init /\ [][NextEdges]_vars

\* Writes of attribute values: set, remove and release on the graph, its
\* nodes and its nests
NextFrame ==
    \/ attrCreated < MaxFrameObjects /\ NewNode(G)
    \/ attrCreated < MaxFrameObjects /\ NewNest(graphs[G].nestTree)
    \/ attrCreated < MaxFrameObjects /\ NewGraphStrAttr(G)
    \/ attrCreated < MaxFrameObjects /\ NewNodeStrAttr(G)
    \/ attrCreated < MaxFrameObjects /\ NewNestStrAttr(graphs[G].nestTree)
    \/ \E a \in 1..Len(graphAttrs) : \E v \in Values : GraphSetStrAttrVal(G, a, v)
    \/ \E n \in 1..Len(nodes) : \E a \in 1..Len(nodeAttrs) : \E v \in Values :
           NodeSetStrAttrVal(n, a, v)
    \/ \E t \in 1..Len(nests) : \E a \in 1..Len(nestAttrs) : \E v \in Values :
           NestSetStrAttrVal(t, a, v)
    \/ \E a \in 1..Len(graphAttrs) : GraphRemoveStrAttr(G, a)
    \/ \E n \in 1..Len(nodes) : \E a \in 1..Len(nodeAttrs) : NodeRemoveStrAttr(n, a)
    \/ \E t \in 1..Len(nests) : \E a \in 1..Len(nestAttrs) : NestRemoveStrAttr(t, a)
    \/ \E a \in 1..Len(graphAttrs) : ReleaseGraphStrAttr(G, a)
    \/ \E a \in 1..Len(nodeAttrs) : ReleaseNodeStrAttr(G, a)
    \/ \E a \in 1..Len(nestAttrs) : ReleaseNestStrAttr(graphs[G].nestTree, a)

SpecFrame == Init /\ [][NextFrame]_vars

\* Nodes and nests are made and nodes moved between and within nests; no
\* node has an edge, so every MoveToNest is over in one step
NextOrder ==
    \/ NewNodeWithin(MaxOrderNodes, G)
    \/ NewNest(graphs[G].nestTree)
    \/ \E n \in 1..Len(nodes) : \E t \in 1..Len(nests) : MoveToNest(n, t)

SpecOrder == Init /\ [][NextOrder]_vars

\* The calls are run to their end: a started MoveToNest keeps executing
FairSpec == Spec /\ WF_vars(MoveStep)

\* ---- definitions used by the properties ---------------------------------

Nodes == 1..Len(nodes)
Edges == 1..Len(edges)
Nests == 1..Len(nests)

\* The nests on the parent chain of a nest, the nest itself included
RECURSIVE Ancestors(_, _)
Ancestors(a, fuel) ==
    IF a = nil \/ fuel = 0 THEN {}
    ELSE {a} \cup Ancestors(nests[a].parentNest, fuel - 1)

\* Nearest common ancestor by definition: the deepest nest that is an
\* ancestor of both, nil when there is none
NearestCommonAncestor(a, b) ==
    LET common == Ancestors(a, Len(nests)) \cap Ancestors(b, Len(nests))
    IN  IF common = {} THEN nil
        ELSE CHOOSE c \in common : \A d \in common : nests[d].level <= nests[c].level

\* The nodes met from a node along nextNodeInNest, at most fuel of them
RECURSIVE NodeChain(_, _)
NodeChain(n, fuel) ==
    IF n = nil \/ fuel = 0 THEN <<>>
    ELSE <<n>> \o NodeChain(nodes[n].nextNodeInNest, fuel - 1)

\* The edges met from an edge along nextEdgeInNest, at most fuel of them
RECURSIVE EdgeChain(_, _)
EdgeChain(e, fuel) ==
    IF e = nil \/ fuel = 0 THEN <<>>
    ELSE <<e>> \o EdgeChain(edges[e].nextEdgeInNest, fuel - 1)

Range(s) == {s[i] : i \in 1..Len(s)}
NoRepeat(s) == \A i, j \in 1..Len(s) : i # j => s[i] # s[j]

TypeOK == pc \in {"idle", "in_cond", "in_body", "out_cond", "out_body"}

\* ---- properties --------------------------------------------------------

\* C1: after every completed public mutating operation every edge has a nest,
\* and it is the nearest common ancestor of the nests of its two end nodes
C1_EdgeNestIsNearestCommonAncestor ==
    pc = "idle" =>
        \A e \in Edges :
            /\ edges[e].nest # nil
            /\ edges[e].nest = NearestCommonAncestor(nodes[edges[e].srcNode].nest,
                                                     nodes[edges[e].dstNode].nest)

\* C1 witness: a MoveToNest has completed and an edge joins nodes of two
\* different nests, one of them not the root
C1_Witness ==
    /\ pc = "idle"
    /\ \E e \in Edges :
           /\ nodes[edges[e].srcNode].nest # nodes[edges[e].dstNode].nest
           /\ nests[edges[e].nest].parentNest = nil

\* C2: every MoveToNest call that has started returns
C2_MoveToNestReturns == (pc # "idle") ~> (pc = "idle")

\* C3: for an edge n1->n2 with n2 in a group B, "move n1 into B" completes
\* with the edge in B, and "move n1 to the root" completes with the edge in
\* the root nest
C3_MoveIntoGroupAndBack ==
    \A e \in 1..(MaxEdges + 1) :
        /\ (/\ pc # "idle" /\ e \in Edges
            /\ mv.node = edges[e].srcNode /\ edges[e].dstNode # mv.node
            /\ nests[mv.nest].parentNest # nil
            /\ nodes[edges[e].dstNode].nest = mv.nest)
             ~> (pc = "idle" /\ e \in Edges /\ edges[e].nest = nodes[edges[e].dstNode].nest)
        /\ (/\ pc # "idle" /\ e \in Edges
            /\ mv.node = edges[e].srcNode /\ edges[e].dstNode # mv.node
            /\ nests[mv.nest].parentNest = nil
            /\ nodes[edges[e].dstNode].nest # mv.nest)
             ~> (pc = "idle" /\ e \in Edges /\ nests[edges[e].nest].parentNest = nil)

\* C4: no step of a MoveToNest call whose target is the nest the node is
\* already in changes the nest of any edge
C4_MoveToOwnNestKeepsEdgeNests ==
    [][/\ (pc = "idle" /\ ret'.op = "MoveToNest" /\ ~ret'.err)
              => \A n \in Nodes :
                     (MoveToNest(n, nodes[n].nest))
                         => \A e \in Edges : edges'[e].nest = edges[e].nest
       /\ (pc # "idle" /\ mv.from = mv.nest)
              => \A e \in Edges : edges'[e].nest = edges[e].nest]_vars

\* C4 witness: a call that moves a node with an incident edge to its own
\* nest has run the reattribution of that edge
C4_Witness ==
    /\ pc \in {"in_cond", "out_cond"}
    /\ mv.from = mv.nest
    /\ nodes[edges[mv.edge].srcNode].nest # nodes[edges[mv.edge].dstNode].nest

\* C5: every node has a nest and is listed exactly once, in the list of that
\* nest only; every list of nodes is a well-formed doubly linked list
C5_NodeMembershipLists ==
    /\ \A n \in Nodes : nodes[n].nest \in Nests
    /\ \A t \in Nests :
           LET chain == NodeChain(nests[t].firstNode, Len(nodes) + 1)
           IN  /\ NoRepeat(chain)
               /\ Len(chain) <= Len(nodes)
               /\ Range(chain) = {n \in Nodes : nodes[n].nest = t}
               /\ chain = <<>> <=> nests[t].firstNode = nil
               /\ chain = <<>> <=> nests[t].lastNode = nil
               /\ chain # <<>> =>
                      /\ nodes[chain[1]].prevNodeInNest = nil
                      /\ nests[t].lastNode = chain[Len(chain)]
                      /\ nodes[nests[t].lastNode].nextNodeInNest = nil
               /\ \A i \in 2..Len(chain) : nodes[chain[i]].prevNodeInNest = chain[i - 1]

\* C5 witness: a nest other than the root lists two nodes, moved there
C5_Witness ==
    \E t \in Nests :
        /\ nests[t].parentNest # nil
        /\ nests[t].firstNode # nil
        /\ nests[t].firstNode # nests[t].lastNode

\* C6: every edge is listed exactly once, in the list of edges of the nest
\* its backlink names and in no other; the links of the lists are consistent
C6_EdgeMembershipLists ==
    /\ \A e \in Edges : edges[e].nest \in Nests
    /\ \A t \in Nests :
           LET chain == EdgeChain(nests[t].firstEdge, Len(edges) + 1)
           IN  /\ NoRepeat(chain)
               /\ Len(chain) <= Len(edges)
               /\ Range(chain) = {e \in Edges : edges[e].nest = t}
               /\ chain # <<>> => edges[chain[1]].prevEdgeInNest = nil
               /\ \A i \in 2..Len(chain) : edges[chain[i]].prevEdgeInNest = chain[i - 1]

\* C6 witness: a reattribution has taken an edge out of the list of one nest
\* and put it in the list of another nest
C6_Witness ==
    /\ pc \in {"in_cond", "out_cond"}
    /\ mv.from # mv.nest
    /\ edges[mv.edge].nest = mv.nest
    /\ nests[mv.nest].firstEdge = mv.edge
    /\ nests[mv.from].firstEdge = nil

\* C7: NewEdge with an absent source or destination, or with a source or
\* destination of a different graph, returns an error and no edge and leaves
\* the counters, the adjacency lists and the nests' lists as they were
C7_NewEdgeRejectsBadEndpoints ==
    [][(pc = "idle" /\ ret'.op = "NewEdge")
       => \/ /\ ret'.err
             /\ ret'.val = nil
             /\ UNCHANGED <<graphs, nestTrees, nests, nodes, edges>>
          \/ \A g \in Graphs : \A s, d \in 0..Len(nodes) :
                 (s = nil \/ d = nil \/ nodes[s].graph # g \/ nodes[d].graph # g)
                     => ~NewEdge(g, s, d)]_vars

\* C7 witness: NewEdge has failed on a graph that has an edge
C7_Witness ==
    /\ ret.op = "NewEdge"
    /\ ret.err
    /\ \E e \in Edges : edges[e].graph = G

\* C9: the identity counters never decrease, a created node, edge or nest has
\* an identity greater than every one of its kind made before in its graph,
\* identities are unique per kind and graph, and a failed NewEdge takes none:
\* each counter is the number of objects made, and identities grow in the
\* order of creation
C9_IdentitiesIncreaseAndAreUnique ==
    /\ \A g \in Graphs :
           /\ graphs[g].nodeCount = Cardinality({n \in Nodes : nodes[n].graph = g})
           /\ graphs[g].edgeCount = Cardinality({e \in Edges : edges[e].graph = g})
           /\ nestTrees[g].nestCount = Cardinality({t \in Nests : nests[t].nestTree = g})
    /\ \A m, n \in Nodes :
           (m < n /\ nodes[m].graph = nodes[n].graph) => nodes[m].id < nodes[n].id
    /\ \A e, f \in Edges :
           (e < f /\ edges[e].graph = edges[f].graph) => edges[e].id < edges[f].id
    /\ \A t, u \in Nests :
           (t < u /\ nests[t].nestTree = nests[u].nestTree) => nests[t].id < nests[u].id
    /\ \A n \in Nodes : nodes[n].id < graphs[nodes[n].graph].nodeCount
    /\ \A e \in Edges : edges[e].id < graphs[edges[e].graph].edgeCount
    /\ \A t \in Nests : nests[t].id < nestTrees[nests[t].nestTree].nestCount

\* C9 witness: two nodes and two nests besides the root have been created, and
\* an edge, and a NewEdge has failed
C9_Witness ==
    /\ graphs[G].nodeCount >= 2
    /\ nestTrees[graphs[G].nestTree].nestCount >= 3
    /\ graphs[G].edgeCount >= 1
    /\ ret.op = "NewEdge" /\ ret.err

\* C8: NewNode returns a new node whose identity is the next one of its graph
\* and is used by no node of the graph, whose nest is the root nest and which
\* is in the root nest's node list, whose edge lists are empty, and on which
\* every node attribute of the graph reports not-set, whatever is set on the
\* other nodes
C8_NewNodeIsFresh ==
    [][ \/ Len(nodes') # Len(nodes) + 1
        \/ \A g \in Graphs :
               \/ ~NewNode(g)
               \/ LET n == ret'.val
                      root == nestTrees[graphs[g].nestTree].rootNest
                      old == {m \in 1..Len(nodes) : nodes[m].graph = g}
                  IN  /\ ret'.op = "NewNode" /\ ~ret'.err
                      /\ n \in 1..Len(nodes') /\ n \notin 1..Len(nodes)
                      /\ nodes'[n].graph = g
                      /\ nodes'[n].id = Cardinality(old)
                      /\ \A m \in old : nodes[m].id # nodes'[n].id
                      /\ nodes'[n].nest = root
                      /\ nests'[root].firstNode = n
                      /\ nodes'[n].prevNodeInNest = nil
                      /\ \A m \in old : nodes'[m].nest = root
                             => \E k \in 1..Len(nodes') : nodes'[k].nextNodeInNest = m
                      /\ nodes'[n].firstIncomingEdge = nil
                      /\ nodes'[n].firstOutcomingEdge = nil
                      /\ \A e \in 1..Len(edges') :
                             edges'[e].srcNode # n /\ edges'[e].dstNode # n
                      /\ Len(nodes'[n].strAttrs) = graphs[g].attrSpec.NodeStrAttrNum
                      /\ \A a \in 1..Len(nodeAttrs') :
                             (nodeAttrs'[a].isValid /\ nodeAttrs'[a].graph = g)
                                 => nodeIsStrAttrSet(nodes'[n], nodeAttrs'[a])
                                        = Returned(FALSE, "")
      ]_vars

\* C8 witness: NewNode has returned a node of a graph in which another node has
\* an allocated attribute set and has an edge
C8_Witness ==
    /\ ret.op = "NewNode" /\ ~ret.err
    /\ \E m \in Nodes, a \in 1..Len(nodeAttrs) :
           /\ m # ret.val
           /\ nodes[m].graph = nodes[ret.val].graph
           /\ nodeIsStrAttrSet(nodes[m], nodeAttrs[a]) = Returned(TRUE, "")
           /\ nodeIsStrAttrSet(nodes[ret.val], nodeAttrs[a]) = Returned(FALSE, "")
           /\ nodes[m].firstOutcomingEdge # nil

\* The post-condition of an allocation from a pool: free is the set of the
\* free slots before the call (numbered from 1), handles the arena of handles
\* after it, owner the owner recorded in the handle
AllocPost(map, mapAfter, lenBefore, num, valid, owner, obj) ==
    LET free == {i \in 1..Len(map) : ~map[i]}
    IN  IF free # {}
        THEN LET low == CHOOSE i \in free : \A j \in free : i <= j
             IN  /\ ~ret'.err
                 /\ ret'.val = lenBefore + 1
                 /\ ret'.val # invalidAttr
                 /\ valid
                 /\ owner = obj
                 /\ num = low - 1
                 /\ mapAfter = [map EXCEPT ![low] = TRUE]
        ELSE /\ ret'.err
             /\ ret'.val = invalidAttr
             /\ mapAfter = map

\* C10: in each of the three pools an allocation returns a new valid handle on
\* the lowest-numbered free slot and marks that slot allocated; when no slot
\* is free, a pool of size 0 included, it returns an error and the invalid
\* handle and leaves the allocation map as it was
C10_AllocateLowestFreeSlot ==
    [][ /\ \/ ret'.op # "NewGraphStrAttr"
           \/ \A g \in Graphs :
                  \/ ~NewGraphStrAttr(g)
                  \/ /\ AllocPost(graphs[g].graphStrAttrAllocMap,
                                   graphs'[g].graphStrAttrAllocMap,
                                   Len(graphAttrs),
                                   graphAttrs'[ret'.val].attrNum,
                                   graphAttrs'[ret'.val].isValid,
                                   graphAttrs'[ret'.val].graph, g)
                     /\ ~graphAttrs'[invalidAttr].isValid
        /\ \/ ret'.op # "NewNodeStrAttr"
           \/ \A g \in Graphs :
                  \/ ~NewNodeStrAttr(g)
                  \/ /\ AllocPost(graphs[g].nodeStrAttrAllocMap,
                                   graphs'[g].nodeStrAttrAllocMap,
                                   Len(nodeAttrs),
                                   nodeAttrs'[ret'.val].attrNum,
                                   nodeAttrs'[ret'.val].isValid,
                                   nodeAttrs'[ret'.val].graph, g)
                     /\ ~nodeAttrs'[invalidAttr].isValid
        /\ \/ ret'.op # "NewNestStrAttr"
           \/ \A nt \in Graphs :
                  \/ ~NewNestStrAttr(nt)
                  \/ /\ AllocPost(nestTrees[nt].nestStrAttrAllocMap,
                                   nestTrees'[nt].nestStrAttrAllocMap,
                                   Len(nestAttrs),
                                   nestAttrs'[ret'.val].attr_num,
                                   nestAttrs'[ret'.val].is_valid,
                                   nestAttrs'[ret'.val].nestTree, nt)
                     /\ ~nestAttrs'[invalidAttr].is_valid
      ]_vars

\* C10 witness: an allocation has returned slot 0 of a pool while a handle
\* allocated before it holds slot 1: slot 0 was released and is taken again,
\* not the slot after the highest one in use
C10_Witness ==
    /\ ret.op = "NewGraphStrAttr" /\ ~ret.err
    /\ graphAttrs[ret.val].attrNum = 0
    /\ \E a \in 1..(ret.val - 1) :
           /\ graphAttrs[a].isValid
           /\ graphAttrs[a].graph = graphAttrs[ret.val].graph
           /\ graphAttrs[a].attrNum = 1

\* C11: ReleaseNodeStrAttr with a valid handle of the graph returns no error,
\* leaves the slot not-set on every node of the graph in whatever nest, frees
\* the slot and makes the handle invalid; and a handle allocated later reports
\* not-set on every node of its graph
C11_ReleaseNodeStrAttrSweeps ==
    [][ /\ \/ ret'.op # "ReleaseNodeStrAttr" /\ fault' = "none"
           \/ \A g \in Graphs : \A a \in 1..Len(nodeAttrs) :
                  \/ ~ReleaseNodeStrAttr(g, a)
                  \/ ~(nodeAttrs[a].isValid /\ nodeAttrs[a].graph = g)
                  \/ LET slot == nodeAttrs[a].attrNum + 1
                     IN  /\ fault' = "none"
                         /\ ret'.op = "ReleaseNodeStrAttr" /\ ~ret'.err
                         /\ \A n \in 1..Len(nodes') :
                                nodes'[n].graph = g => ~nodes'[n].strAttrs[slot].isSet
                         /\ ~graphs'[g].nodeStrAttrAllocMap[slot]
                         /\ ~nodeAttrs'[a].isValid
        /\ \/ ret'.op # "NewNodeStrAttr"
           \/ ret'.err
           \/ \A g \in Graphs :
                  \/ ~NewNodeStrAttr(g)
                  \/ \A n \in 1..Len(nodes') :
                         nodes'[n].graph = g
                             => nodeIsStrAttrSet(nodes'[n], nodeAttrs'[ret'.val])
                                    = Returned(FALSE, "")
      ]_vars

\* C11 witness: a handle was released and a new handle has been allocated on
\* its slot, and two nodes in different nests that held a value in the slot
\* report not-set through the new handle
C11_Witness ==
    /\ ret.op = "NewNodeStrAttr" /\ ~ret.err
    /\ \E a \in 2..Len(nodeAttrs) : ~nodeAttrs[a].isValid
    /\ \E m, n \in Nodes :
           /\ nodes[m].graph = nodeAttrs[ret.val].graph
           /\ nodes[n].graph = nodeAttrs[ret.val].graph
           /\ nodes[m].nest # nodes[n].nest
           /\ nodes[m].strAttrs[nodeAttrs[ret.val].attrNum + 1].data # ""
           /\ nodes[n].strAttrs[nodeAttrs[ret.val].attrNum + 1].data # ""
           /\ nodeIsStrAttrSet(nodes[m], nodeAttrs[ret.val]) = Returned(FALSE, "")
           /\ nodeIsStrAttrSet(nodes[n], nodeAttrs[ret.val]) = Returned(FALSE, "")

\* C12: ReleaseNestStrAttr with a valid handle of the tree ends without a
\* run-time panic and returns no error, leaves the slot not-set on every nest
\* of the tree, the root nest included, frees the slot and makes the handle
\* invalid
C12_ReleaseNestStrAttrSucceeds ==
    [][ \/ ret'.op # "ReleaseNestStrAttr" /\ fault' = "none"
        \/ \A nt \in Graphs : \A a \in 1..Len(nestAttrs) :
               \/ ~ReleaseNestStrAttr(nt, a)
               \/ ~(nestAttrs[a].is_valid /\ nestAttrs[a].nestTree = nt)
               \/ LET slot == nestAttrs[a].attr_num + 1
                  IN  /\ fault' = "none"
                      /\ ret'.op = "ReleaseNestStrAttr" /\ ~ret'.err
                      /\ \A t \in 1..Len(nests') :
                             nests'[t].nestTree = nt
                                 => /\ slot \in 1..Len(nests'[t].strAttrs)
                                    /\ ~nests'[t].strAttrs[slot].isSet
                      /\ ~nestTrees'[nt].nestStrAttrAllocMap[slot]
                      /\ ~nestAttrs'[a].is_valid
      ]_vars

\* C13: SetStrAttrVal on any nest of a tree, the root nest included, with a
\* valid handle of the tree ends without a run-time panic and returns no
\* error, and then IsStrAttrSet returns true and GetStrAttrVal the value set
C13_EveryNestHoldsAttrValues ==
    [][ \/ ret'.op # "NestSetStrAttrVal" /\ fault' = "none"
        \/ \A t \in 1..Len(nests) : \A a \in 1..Len(nestAttrs) : \A v \in Values :
               \/ ~NestSetStrAttrVal(t, a, v)
               \/ ~(nestAttrs[a].is_valid /\ nestAttrs[a].nestTree = nests[t].nestTree)
               \/ /\ fault' = "none"
                  /\ ret'.op = "NestSetStrAttrVal" /\ ~ret'.err
                  /\ nestIsStrAttrSet(nests'[t], nestAttrs'[a]) = Returned(TRUE, "")
                  /\ nestGetStrAttrVal(nests'[t], nestAttrs'[a]) = Returned(v, "")
      ]_vars

\* The texts of the errors for a handle that is not valid and for a handle of
\* another graph or tree
InvalidAttribute == {"The attribute is invalid"}
ForeignAttribute ==
    {"The attribute doesn't belong to the graph",
     "The attribute and the node belong to different graphs",
     "The attribute and the nest belong to different nest trees"}

\* The error a set, get or isSet must give for a handle, "" when it must not
\* fail for the handle
HandleError(valid, owner, container) ==
    IF ~valid THEN InvalidAttribute
    ELSE IF owner # container THEN ForeignAttribute
    ELSE {""}

\* C14: on a graph, a node and a nest alike, set, get and isSet with a handle
\* that is not valid fail with the invalid-attribute error, and with a valid
\* handle of another graph or tree with the foreign-attribute error, without
\* a run-time panic; the element the call is made on, attribute values and
\* allocation maps included, is left as it was
C14_BadHandleFailsAndChangesNothing ==
    /\ \A g \in Graphs : \A a \in 1..Len(graphAttrs) :
           LET attr == graphAttrs[a]
               bad == HandleError(attr.isValid, attr.graph, g)
           IN  \/ bad = {""}
               \/ /\ graphIsStrAttrSet(graphs[g], g, attr).fault = "none"
                  /\ graphIsStrAttrSet(graphs[g], g, attr).err
                  /\ graphIsStrAttrSet(graphs[g], g, attr).msg \in bad
                  /\ graphGetStrAttrVal(graphs[g], g, attr).fault = "none"
                  /\ graphGetStrAttrVal(graphs[g], g, attr).err
                  /\ graphGetStrAttrVal(graphs[g], g, attr).msg \in bad
                  /\ \A v \in Values :
                         /\ graphSetStrAttrVal(graphs[g], g, attr, v).fault = "none"
                         /\ graphSetStrAttrVal(graphs[g], g, attr, v).err
                         /\ graphSetStrAttrVal(graphs[g], g, attr, v).msg \in bad
                         /\ graphSetStrAttrVal(graphs[g], g, attr, v).val = graphs[g]
    /\ \A n \in 1..Len(nodes) : \A a \in 1..Len(nodeAttrs) :
           LET attr == nodeAttrs[a]
               bad == HandleError(attr.isValid, attr.graph, nodes[n].graph)
           IN  \/ bad = {""}
               \/ /\ nodeIsStrAttrSet(nodes[n], attr).fault = "none"
                  /\ nodeIsStrAttrSet(nodes[n], attr).err
                  /\ nodeIsStrAttrSet(nodes[n], attr).msg \in bad
                  /\ nodeGetStrAttrVal(nodes[n], attr).fault = "none"
                  /\ nodeGetStrAttrVal(nodes[n], attr).err
                  /\ nodeGetStrAttrVal(nodes[n], attr).msg \in bad
                  /\ \A v \in Values :
                         /\ nodeSetStrAttrVal(nodes[n], attr, v).fault = "none"
                         /\ nodeSetStrAttrVal(nodes[n], attr, v).err
                         /\ nodeSetStrAttrVal(nodes[n], attr, v).msg \in bad
                         /\ nodeSetStrAttrVal(nodes[n], attr, v).val = nodes[n]
    /\ \A t \in 1..Len(nests) : \A a \in 1..Len(nestAttrs) :
           LET attr == nestAttrs[a]
               bad == HandleError(attr.is_valid, attr.nestTree, nests[t].nestTree)
           IN  \/ bad = {""}
               \/ /\ nestIsStrAttrSet(nests[t], attr).fault = "none"
                  /\ nestIsStrAttrSet(nests[t], attr).err
                  /\ nestIsStrAttrSet(nests[t], attr).msg \in bad
                  /\ nestGetStrAttrVal(nests[t], attr).fault = "none"
                  /\ nestGetStrAttrVal(nests[t], attr).err
                  /\ nestGetStrAttrVal(nests[t], attr).msg \in bad
                  /\ \A v \in Values :
                         /\ nestSetStrAttrVal(nests[t], attr, v).fault = "none"
                         /\ nestSetStrAttrVal(nests[t], attr, v).err
                         /\ nestSetStrAttrVal(nests[t], attr, v).msg \in bad
                         /\ nestSetStrAttrVal(nests[t], attr, v).val = nests[t]

\* C14 witness: SetStrAttrVal on a nest has failed with the foreign-attribute
\* error while a node of the handle's graph holds a value and slots are
\* allocated
C14_Witness ==
    /\ ret.op = "NestSetStrAttrVal" /\ ret.err
    /\ ret.msg \in ForeignAttribute
    /\ \E n \in Nodes : \E i \in 1..Len(nodes[n].strAttrs) : nodes[n].strAttrs[i].isSet
    /\ \E a \in 1..Len(nestAttrs) : nestAttrs[a].is_valid

\* C15: RemoveStrAttr on a graph, a node or a nest with a handle that is not
\* valid, or with a valid handle of another graph or tree, returns an error
\* and leaves the element as it was
C15_RemoveWithBadHandleFails ==
    [][ /\ \/ ret'.op # "GraphRemoveStrAttr" /\ fault' = "none"
           \/ \A g \in Graphs : \A a \in 1..Len(graphAttrs) :
                  \/ ~GraphRemoveStrAttr(g, a)
                  \/ HandleError(graphAttrs[a].isValid, graphAttrs[a].graph, g) = {""}
                  \/ fault' = "none" /\ ret'.err /\ graphs'[g] = graphs[g]
        /\ \/ ret'.op # "NodeRemoveStrAttr" /\ fault' = "none"
           \/ \A n \in 1..Len(nodes) : \A a \in 1..Len(nodeAttrs) :
                  \/ ~NodeRemoveStrAttr(n, a)
                  \/ HandleError(nodeAttrs[a].isValid, nodeAttrs[a].graph,
                                 nodes[n].graph) = {""}
                  \/ fault' = "none" /\ ret'.err /\ nodes'[n] = nodes[n]
        /\ \/ ret'.op # "NestRemoveStrAttr" /\ fault' = "none"
           \/ \A t \in 1..Len(nests) : \A a \in 1..Len(nestAttrs) :
                  \/ ~NestRemoveStrAttr(t, a)
                  \/ HandleError(nestAttrs[a].is_valid, nestAttrs[a].nestTree,
                                 nests[t].nestTree) = {""}
                  \/ fault' = "none" /\ ret'.err /\ nests'[t] = nests[t]
      ]_vars

\* The texts of the errors of a get on a slot that is not set
NotSet ==
    {"The attribute is not set for the graph",
     "The attribute is not set for the node",
     "The attribute is not set for the nest"}

\* What get and isSet must return for a slot: the value of the last set, or
\* the not-set error
Reads(isSet, get, set, data) ==
    /\ isSet.fault = "none" /\ get.fault = "none"
    /\ isSet = Returned(set, "")
    /\ IF set THEN get = Returned(data, "")
       ELSE get.err /\ get.msg \in NotSet

\* C16: through a valid handle of the element's graph or tree, get and isSet
\* end without a run-time panic on every graph, node and nest; after a set
\* they give the value set and true, after a remove, and through a handle
\* just allocated, the not-set error and false; and get gives the not-set
\* error exactly when isSet gives false
C16_GetReportsLastSetOrNotSet ==
    [][ /\ \A g \in Graphs : \A a \in 1..Len(graphAttrs') :
               LET attr == graphAttrs'[a]
                   isSet == graphIsStrAttrSet(graphs'[g], g, attr)
                   get == graphGetStrAttrVal(graphs'[g], g, attr)
               IN  \/ HandleError(attr.isValid, attr.graph, g) # {""}
                   \/ /\ isSet.fault = "none" /\ get.fault = "none"
                      /\ ~isSet.err
                      /\ get.err <=> ~isSet.val
                      /\ get.err => get.msg \in NotSet
                      /\ a \notin 1..Len(graphAttrs) => Reads(isSet, get, FALSE, "")
                      /\ \A v \in Values :
                             (a \in 1..Len(graphAttrs) /\ GraphSetStrAttrVal(g, a, v))
                                 => Reads(isSet, get, TRUE, v)
                      /\ (a \in 1..Len(graphAttrs) /\ GraphRemoveStrAttr(g, a))
                             => Reads(isSet, get, FALSE, "")
        /\ \A n \in 1..Len(nodes') : \A a \in 1..Len(nodeAttrs') :
               LET attr == nodeAttrs'[a]
                   isSet == nodeIsStrAttrSet(nodes'[n], attr)
                   get == nodeGetStrAttrVal(nodes'[n], attr)
               IN  \/ HandleError(attr.isValid, attr.graph, nodes'[n].graph) # {""}
                   \/ /\ isSet.fault = "none" /\ get.fault = "none"
                      /\ ~isSet.err
                      /\ get.err <=> ~isSet.val
                      /\ get.err => get.msg \in NotSet
                      /\ (a \notin 1..Len(nodeAttrs) \/ n \notin 1..Len(nodes))
                             => Reads(isSet, get, FALSE, "")
                      /\ \A v \in Values :
                             (/\ a \in 1..Len(nodeAttrs) /\ n \in 1..Len(nodes)
                              /\ NodeSetStrAttrVal(n, a, v))
                                 => Reads(isSet, get, TRUE, v)
                      /\ (/\ a \in 1..Len(nodeAttrs) /\ n \in 1..Len(nodes)
                          /\ NodeRemoveStrAttr(n, a))
                             => Reads(isSet, get, FALSE, "")
        /\ \A t \in 1..Len(nests') : \A a \in 1..Len(nestAttrs') :
               LET attr == nestAttrs'[a]
                   isSet == nestIsStrAttrSet(nests'[t], attr)
                   get == nestGetStrAttrVal(nests'[t], attr)
               IN  \/ HandleError(attr.is_valid, attr.nestTree, nests'[t].nestTree) # {""}
                   \/ /\ isSet.fault = "none" /\ get.fault = "none"
                      /\ ~isSet.err
                      /\ get.err <=> ~isSet.val
                      /\ get.err => get.msg \in NotSet
                      /\ (a \notin 1..Len(nestAttrs) \/ t \notin 1..Len(nests))
                             => Reads(isSet, get, FALSE, "")
                      /\ \A v \in Values :
                             (/\ a \in 1..Len(nestAttrs) /\ t \in 1..Len(nests)
                              /\ NestSetStrAttrVal(t, a, v))
                                 => Reads(isSet, get, TRUE, v)
                      /\ (/\ a \in 1..Len(nestAttrs) /\ t \in 1..Len(nests)
                          /\ NestRemoveStrAttr(t, a))
                             => Reads(isSet, get, FALSE, "")
      ]_vars

\* C17: on a graph and on a node, a get that follows a set through the same
\* handle returns the value set; through a handle just allocated every
\* element reports not-set, whatever was set under a released handle of the
\* slot; and a value read through a handle was set through that handle: no
\* step but a set makes a get return a value it did not return before
C17_RoundTripAndNoStaleValue ==
    [][ /\ \/ ret'.op # "GraphSetStrAttrVal"
           \/ ret'.err
           \/ \A g \in Graphs : \A a \in 1..Len(graphAttrs) : \A v \in RoundTripValues :
                  \/ ~GraphSetStrAttrVal(g, a, v)
                  \/ graphGetStrAttrVal(graphs'[g], g, graphAttrs'[a]) = Returned(v, "")
        /\ \/ ret'.op # "NodeSetStrAttrVal"
           \/ ret'.err
           \/ \A n \in 1..Len(nodes) : \A a \in 1..Len(nodeAttrs) : \A v \in RoundTripValues :
                  \/ ~NodeSetStrAttrVal(n, a, v)
                  \/ nodeGetStrAttrVal(nodes'[n], nodeAttrs'[a]) = Returned(v, "")
        /\ \A g \in Graphs : \A a \in 1..Len(graphAttrs') :
               LET get == graphGetStrAttrVal(graphs'[g], g, graphAttrs'[a])
               IN  \/ get.err
                   \/ /\ a \in 1..Len(graphAttrs)
                      /\ \/ graphGetStrAttrVal(graphs[g], g, graphAttrs[a]) = get
                         \/ GraphSetStrAttrVal(g, a, get.val)
        /\ \A n \in 1..Len(nodes') : \A a \in 1..Len(nodeAttrs') :
               LET get == nodeGetStrAttrVal(nodes'[n], nodeAttrs'[a])
               IN  \/ get.err
                   \/ /\ a \in 1..Len(nodeAttrs) /\ n \in 1..Len(nodes)
                      /\ \/ nodeGetStrAttrVal(nodes[n], nodeAttrs[a]) = get
                         \/ NodeSetStrAttrVal(n, a, get.val)
      ]_vars

\* C17 witness: a get on the graph has returned the not-set error through the
\* only valid handle, which was allocated after a release on a slot that
\* still holds the data set under the released handle
C17_Witness ==
    /\ ret.op = "GraphGetStrAttrVal" /\ ret.err /\ ret.msg \in NotSet
    /\ \E a \in 2..Len(graphAttrs) : \E h \in 2..Len(graphAttrs) :
           /\ a < h
           /\ ~graphAttrs[a].isValid
           /\ graphAttrs[h].isValid
           /\ \A k \in 1..Len(graphAttrs) : graphAttrs[k].isValid => k = h
           /\ graphs[graphAttrs[h].graph].strAttrs[graphAttrs[h].attrNum + 1].data # ""
           /\ graphGetStrAttrVal(graphs[graphAttrs[h].graph], graphAttrs[h].graph,
                                 graphAttrs[h]).msg \in NotSet

\* C18: a release that succeeds makes the handle invalid, and a handle that
\* is not valid never becomes valid again; a set, get, isSet or release through
\* it returns an error and changes no attribute value, no allocation map and
\* no handle, also when its slot is allocated to another handle
C18_ReleasedHandleStaysInvalid ==
    [][ /\ \A a \in 1..Len(graphAttrs) : ~graphAttrs[a].isValid => ~graphAttrs'[a].isValid
        /\ \A a \in 1..Len(nodeAttrs) : ~nodeAttrs[a].isValid => ~nodeAttrs'[a].isValid
        /\ \A a \in 1..Len(nestAttrs) : ~nestAttrs[a].is_valid => ~nestAttrs'[a].is_valid
        /\ \/ ret'.op # "ReleaseGraphStrAttr"
           \/ \A g \in Graphs : \A a \in 1..Len(graphAttrs) :
                  \/ ~ReleaseGraphStrAttr(g, a)
                  \/ IF graphAttrs[a].isValid
                     THEN ret'.err \/ ~graphAttrs'[a].isValid
                     ELSE ret'.err /\ UNCHANGED <<structVars, attrObjs>>
        /\ \/ ret'.op # "ReleaseNodeStrAttr"
           \/ \A g \in Graphs : \A a \in 1..Len(nodeAttrs) :
                  \/ ~ReleaseNodeStrAttr(g, a)
                  \/ IF nodeAttrs[a].isValid
                     THEN ret'.err \/ ~nodeAttrs'[a].isValid
                     ELSE ret'.err /\ UNCHANGED <<structVars, attrObjs>>
        /\ \/ ret'.op # "ReleaseNestStrAttr"
           \/ \A nt \in Graphs : \A a \in 1..Len(nestAttrs) :
                  \/ ~ReleaseNestStrAttr(nt, a)
                  \/ IF nestAttrs[a].is_valid
                     THEN ret'.err \/ ~nestAttrs'[a].is_valid
                     ELSE ret'.err /\ UNCHANGED <<structVars, attrObjs>>
        /\ \/ ret'.op \notin {"GraphSetStrAttrVal", "GraphGetStrAttrVal", "GraphIsStrAttrSet"}
           \/ \A g \in Graphs : \A a \in 1..Len(graphAttrs) :
                  \/ graphAttrs[a].isValid
                  \/ ~(\/ GraphGetStrAttrVal(g, a)
                       \/ GraphIsStrAttrSet(g, a)
                       \/ \E v \in Values : GraphSetStrAttrVal(g, a, v))
                  \/ ret'.err /\ UNCHANGED <<structVars, attrObjs>>
        /\ \/ ret'.op \notin {"NodeSetStrAttrVal", "NodeGetStrAttrVal", "NodeIsStrAttrSet"}
           \/ \A n \in 1..Len(nodes) : \A a \in 1..Len(nodeAttrs) :
                  \/ nodeAttrs[a].isValid
                  \/ ~(\/ NodeGetStrAttrVal(n, a)
                       \/ NodeIsStrAttrSet(n, a)
                       \/ \E v \in Values : NodeSetStrAttrVal(n, a, v))
                  \/ ret'.err /\ UNCHANGED <<structVars, attrObjs>>
      ]_vars

\* C18 witness: a release through a released handle has failed while the slot
\* that handle had is allocated to a later handle, and the slot is still
\* allocated and still holds the value set through the later handle
C18_Witness ==
    /\ ret.op = "ReleaseGraphStrAttr" /\ ret.err
    /\ \E a \in 2..Len(graphAttrs) : \E h \in 2..Len(graphAttrs) :
           /\ a < h
           /\ ~graphAttrs[a].isValid
           /\ graphAttrs[h].isValid
           /\ graphAttrs[h].attrNum = 0
           /\ graphs[graphAttrs[h].graph].graphStrAttrAllocMap[1]
           /\ graphs[graphAttrs[h].graph].strAttrs[1].isSet

\* C19: NewNest returns a new nest whose parent is the root nest and which is
\* the head of the root's child list in front of the former children, whose
\* level is the root's plus one, whose identity is the next of the tree and
\* used by no nest of it, and which has no child nest, node or edge; the nests
\* that existed keep their parent, level, members and order, and no node or
\* edge is changed
C19_NewNestIsEmptyChildOfRoot ==
    [][ \/ Len(nests') = Len(nests)
        \/ \A nt \in Graphs :
               \/ ~NewNest(nt)
               \/ LET p == ret'.val
                      root == nestTrees[nt].rootNest
                      old == {t \in 1..Len(nests) : nests[t].nestTree = nt}
                  IN  /\ ret'.op = "NewNest" /\ ~ret'.err
                      /\ p \in 1..Len(nests') /\ p \notin 1..Len(nests)
                      /\ nests'[p].nestTree = nt
                      /\ nests'[p].parentNest = root
                      /\ nests'[root].firstChildNest = p
                      /\ nests'[p].prevSiblingNest = nil
                      /\ nests'[p].nextSiblingNest = nests[root].firstChildNest
                      /\ nests'[p].level = nests[root].level + 1
                      /\ nests'[p].id = Cardinality(old)
                      /\ \A t \in old : nests[t].id # nests'[p].id
                      /\ nests'[p].firstChildNest = nil /\ nests'[p].lastChildNest = nil
                      /\ nests'[p].firstNode = nil /\ nests'[p].lastNode = nil
                      /\ nests'[p].firstEdge = nil
                      /\ \A n \in 1..Len(nodes') : nodes'[n].nest # p
                      /\ \A e \in 1..Len(edges') : edges'[e].nest # p
                      /\ \A t \in 1..Len(nests) :
                             /\ nests'[t].parentNest = nests[t].parentNest
                             /\ nests'[t].level = nests[t].level
                             /\ nests'[t].id = nests[t].id
                             /\ nests'[t].nextSiblingNest = nests[t].nextSiblingNest
                             /\ nests'[t].firstNode = nests[t].firstNode
                             /\ nests'[t].lastNode = nests[t].lastNode
                             /\ nests'[t].firstEdge = nests[t].firstEdge
                      /\ nodes' = nodes
                      /\ edges' = edges
      ]_vars

\* C19 witness: NewNest has returned a nest while the root nest had a child
\* nest already and a node had been moved into a child nest
C19_Witness ==
    /\ ret.op = "NewNest" /\ ~ret.err
    /\ nests[ret.val].nextSiblingNest # nil
    /\ \E n \in Nodes : nests[nodes[n].nest].parentNest # nil

\* The nests met from a nest along parentNest, at most fuel of them
RECURSIVE ParentChain(_, _)
ParentChain(t, fuel) ==
    IF t = nil \/ fuel = 0 THEN <<>>
    ELSE <<t>> \o ParentChain(nests[t].parentNest, fuel - 1)

\* The nests met from a nest along nextSiblingNest, at most fuel of them
RECURSIVE SiblingChain(_, _)
SiblingChain(t, fuel) ==
    IF t = nil \/ fuel = 0 THEN <<>>
    ELSE <<t>> \o SiblingChain(nests[t].nextSiblingNest, fuel - 1)

\* C20: every nest tree is a tree: its root nest is the only nest of it
\* without a parent and has level 0; the parent links lead from every nest to
\* the root without meeting a nest twice; the child list of a nest holds
\* exactly the nests whose parent it is, each once and each one level deeper;
\* and it is a doubly linked list from firstChildNest to lastChildNest
C20_NestTreeIsATree ==
    /\ \A nt \in Graphs :
           LET root == nestTrees[nt].rootNest
           IN  /\ root \in Nests
               /\ nests[root].nestTree = nt
               /\ nests[root].level = NT_ROOT_NEST_LEVEL
               /\ {t \in Nests : nests[t].nestTree = nt /\ nests[t].parentNest = nil} = {root}
    /\ \A t \in Nests :
           LET up == ParentChain(t, Len(nests) + 1)
           IN  /\ Len(up) <= Len(nests)
               /\ NoRepeat(up)
               /\ up[Len(up)] = nestTrees[nests[t].nestTree].rootNest
    /\ \A P \in Nests :
           LET kids == SiblingChain(nests[P].firstChildNest, Len(nests) + 1)
           IN  /\ Len(kids) <= Len(nests)
               /\ NoRepeat(kids)
               /\ Range(kids) = {t \in Nests : nests[t].parentNest = P}
               /\ \A i \in 1..Len(kids) :
                      /\ nests[kids[i]].level = nests[P].level + 1
                      /\ nests[kids[i]].nestTree = nests[P].nestTree
                      /\ nests[kids[i]].prevSiblingNest = IF i = 1 THEN nil ELSE kids[i - 1]
               /\ nests[P].lastChildNest = IF kids = <<>> THEN nil ELSE kids[Len(kids)]

\* C20 witness: a nest has at least two child nests, and a node has been
\* moved into a child nest
C20_Witness ==
    /\ \E P \in Nests :
           /\ nests[P].firstChildNest # nil
           /\ nests[P].firstChildNest # nests[P].lastChildNest
    /\ \E n \in Nodes : nests[nodes[n].nest].parentNest # nil

\* The nests met from a nest by GetNextNest, at most fuel of them
RECURSIVE NestWalk(_, _)
NestWalk(t, fuel) ==
    IF t = nil \/ fuel = 0 THEN <<>>
    ELSE <<t>> \o NestWalk(GetNextNest(nests, t), fuel - 1)

\* Depth-first preorder by definition: a nest, then the preorder of each of
\* its children in child-list order
RECURSIVE Preorder(_, _)
RECURSIVE PreorderOfAll(_, _)
Preorder(t, fuel) ==
    IF fuel = 0 THEN <<>>
    ELSE <<t>> \o PreorderOfAll(SiblingChain(nests[t].firstChildNest, Len(nests)), fuel - 1)

PreorderOfAll(kids, fuel) ==
    IF kids = <<>> THEN <<>>
    ELSE Preorder(Head(kids), fuel) \o PreorderOfAll(Tail(kids), fuel)

\* C21: from the root nest of every tree, GetNextNest applied repeatedly
\* returns absent after at most as many steps as there are nests, and the
\* nests it met are the nests of the tree, each once, in depth-first preorder
C21_GetNextNestWalksPreorder ==
    \A nt \in Graphs :
        LET root == nestTrees[nt].rootNest
            walk == NestWalk(root, Len(nests) + 1)
        IN  /\ Len(walk) <= Len(nests)
            /\ NoRepeat(walk)
            /\ Range(walk) = {t \in Nests : nests[t].nestTree = nt}
            /\ walk = Preorder(root, Len(nests) + 1)

\* C21 witness: the walk from the root nest of G meets three nests or more
C21_Witness ==
    Len(NestWalk(nestTrees[graphs[G].nestTree].rootNest, Len(nests) + 1)) >= 3

\* C22 as stated: for every nest that is neither a root nest nor the first
\* child of its parent, GetPrevNest applied to the result of GetNextNest
\* returns the nest
C22_PrevOfNextAsStated ==
    \A g \in Nests :
        nests[g].parentNest # nil /\ nests[g].prevSiblingNest # nil
            => GetPrevNest(nests, GetNextNest(nests, g)) = g

\* C22: for every nest for which GetNextNest returns a nest (every nest but
\* the last of the walk), GetPrevNest applied to that nest returns the nest
\* the walk came from
C22_PrevOfNextUnlessLast ==
    \A g \in Nests :
        GetNextNest(nests, g) # nil
            => GetPrevNest(nests, GetNextNest(nests, g)) = g

\* C22 witness: a nest that is neither a root nest nor a first child has a
\* next nest, and another such nest has none
C22_Witness ==
    /\ \E g \in Nests :
           /\ nests[g].parentNest # nil
           /\ GetNextNest(nests, g) # nil
           /\ nests[GetNextNest(nests, g)].prevSiblingNest = g
    /\ \E g \in Nests :
           /\ nests[g].parentNest # nil /\ nests[g].prevSiblingNest # nil
           /\ GetNextNest(nests, g) = nil

\* The nodes met from a node by GetNextNode, at most fuel of them
RECURSIVE NodeWalk(_, _)
NodeWalk(n, fuel) ==
    IF n = nil \/ fuel = 0 THEN <<>>
    ELSE <<n>> \o NodeWalk(GetNextNode(n), fuel - 1)

\* The membership lists of the nests of a sequence, one after the other
RECURSIVE MembersOfAll(_)
MembersOfAll(ts) ==
    IF ts = <<>> THEN <<>>
    ELSE NodeChain(nests[Head(ts)].firstNode, Len(nodes)) \o MembersOfAll(Tail(ts))

\* C23: from GetFirstNode, GetNextNode applied repeatedly returns absent
\* after at most as many steps as there are nodes, and the nodes it met are
\* the nodes of the graph, each once, in the order of the depth-first preorder
\* of the nests with the membership list of each nest from first to last; on
\* a graph without nodes GetFirstNode returns absent
C23_ForwardIterationVisitsEveryNode ==
    \A g \in Graphs :
        LET walk == NodeWalk(GetFirstNode(g), Len(nodes) + 1)
            root == nestTrees[graphs[g].nestTree].rootNest
            mine == {n \in Nodes : nodes[n].graph = g}
        IN  /\ Len(walk) <= Len(nodes)
            /\ NoRepeat(walk)
            /\ Range(walk) = mine
            /\ walk = MembersOfAll(Preorder(root, Len(nests) + 1))
            /\ mine = {} => GetFirstNode(g) = nil

\* C23 witness: the iteration over G goes from a node to a node of another
\* nest past a nest without nodes
C23_Witness ==
    LET walk == NodeWalk(GetFirstNode(G), Len(nodes) + 1)
    IN  \E i \in 1..(Len(walk) - 1) :
            /\ nodes[walk[i]].nest # nodes[walk[i + 1]].nest
            /\ GetNextNest(nests, nodes[walk[i]].nest) # nodes[walk[i + 1]].nest

\* C24: GetPrevNode undoes GetNextNode and GetNextNode undoes GetPrevNode
\* wherever the first returns a node, and GetPrevNode returns absent for the
\* node GetFirstNode returns
C24_BackwardIsReverseOfForward ==
    /\ \A n \in Nodes :
           /\ GetNextNode(n) # nil => GetPrevNode(GetNextNode(n)) = n
           /\ GetPrevNode(n) # nil => GetNextNode(GetPrevNode(n)) = n
    /\ \A g \in Graphs :
           GetFirstNode(g) # nil => GetPrevNode(GetFirstNode(g)) = nil

\* C24 witness: an edge has been created, and GetPrevNode goes back from a
\* node to a node of an earlier nest past a nest without nodes
C24_Witness ==
    /\ Edges # {}
    /\ \E n \in Nodes :
           /\ GetPrevNode(n) # nil
           /\ nodes[GetPrevNode(n)].nest # nodes[n].nest
           /\ GetPrevNest(nests, nodes[n].nest) # nodes[GetPrevNode(n)].nest

\* C25: for a root nest GetPrevNest returns absent; for every other nest it
\* returns a nest, which is the deepest last descendant of the previous
\* sibling (the last nest of the sibling's preorder) when there is a previous
\* sibling and the parent otherwise, and GetNextNest of that nest is the nest
C25_GetPrevNestInvertsGetNextNest ==
    \A g \in Nests :
        LET prev == GetPrevNest(nests, g)
            sibling == nests[g].prevSiblingNest
            below == Preorder(sibling, Len(nests) + 1)
        IN  IF nests[g].parentNest = nil
            THEN prev = nil
            ELSE /\ prev \in Nests
                 /\ prev = IF sibling # nil THEN below[Len(below)]
                           ELSE nests[g].parentNest
                 /\ GetNextNest(nests, prev) = g

\* C25 witness: one nest has a previous sibling to go back to and another
\* nest of the same tree goes back to its parent
C25_Witness ==
    \E g, f \in Nests :
        /\ nests[g].prevSiblingNest # nil
        /\ GetPrevNest(nests, g) = nests[g].prevSiblingNest
        /\ nests[f].parentNest # nil /\ nests[f].prevSiblingNest = nil
        /\ GetPrevNest(nests, f) = nests[g].parentNest

\* C26: the step of MoveToNest that moves the node takes it out of the
\* membership list of its nest, sets its nest to the target and puts it in
\* the target's list; after that every iteration of the loop over the
\* incoming edges goes on to the next edge of the incoming list and every
\* iteration of the loop over the outcoming edges to the next edge of the
\* outcoming list, so that each list is walked to its end
C26_MoveToNestWalksBothEdgeLists ==
    [][ /\ (pc = "idle" /\ ret'.op = "MoveToNest" /\ ~ret'.err)
            => \A n \in Nodes : \A t \in Nests :
                   MoveToNest(n, t)
                       => /\ nodes'[n].nest = t
                          /\ n \in Range(NodeChain(nests[t].firstNode, Len(nodes)))'
                          /\ \A from \in Nests :
                                 from = nodes[n].nest /\ from # t
                                     => n \notin Range(NodeChain(nests[from].firstNode,
                                                                 Len(nodes)))'
        /\ pc = "in_body" => mv'.edge = edges[mv.edge].nextIncomingEdge
        /\ pc = "out_body" => mv'.edge = edges[mv.edge].nextOutcomingEdge
      ]_vars

\* The edges met from an edge along nextOutcomingEdge, at most fuel of them
RECURSIVE OutcomingChain(_, _)
OutcomingChain(e, fuel) ==
    IF e = nil \/ fuel = 0 THEN <<>>
    ELSE <<e>> \o OutcomingChain(edges[e].nextOutcomingEdge, fuel - 1)

\* The edges met from an edge along nextIncomingEdge, at most fuel of them
RECURSIVE IncomingChain(_, _)
IncomingChain(e, fuel) ==
    IF e = nil \/ fuel = 0 THEN <<>>
    ELSE <<e>> \o IncomingChain(edges[e].nextIncomingEdge, fuel - 1)

\* C27: the outcoming list of every node holds exactly the edges whose source
\* the node is and its incoming list exactly the edges whose destination it
\* is, each once, a later created edge before an earlier one, the head
\* without a predecessor and every other edge with the edge before it as
\* predecessor; every successful NewEdge has left an edge of its own, with
\* an identity no other edge of the graph has, whatever its endpoints
C27_AdjacencyListsHoldEveryEdge ==
    /\ \A n \in Nodes :
           LET out == OutcomingChain(nodes[n].firstOutcomingEdge, Len(edges) + 1)
               in == IncomingChain(nodes[n].firstIncomingEdge, Len(edges) + 1)
           IN  /\ Len(out) <= Len(edges) /\ NoRepeat(out)
               /\ Range(out) = {e \in Edges : edges[e].srcNode = n}
               /\ \A i \in 1..Len(out) :
                      /\ edges[out[i]].prevOutcomingEdge = IF i = 1 THEN nil ELSE out[i - 1]
                      /\ \A j \in (i + 1)..Len(out) : edges[out[i]].id > edges[out[j]].id
               /\ Len(in) <= Len(edges) /\ NoRepeat(in)
               /\ Range(in) = {e \in Edges : edges[e].dstNode = n}
               /\ \A i \in 1..Len(in) :
                      /\ edges[in[i]].prevIncomingEdge = IF i = 1 THEN nil ELSE in[i - 1]
                      /\ \A j \in (i + 1)..Len(in) : edges[in[i]].id > edges[in[j]].id
    /\ \A g \in Graphs :
           Cardinality({e \in Edges : edges[e].graph = g}) = graphs[g].edgeCount
    /\ \A e, f \in Edges :
           e # f /\ edges[e].graph = edges[f].graph => edges[e].id # edges[f].id

\* C27 witness: three edges have been created, two of them with the same
\* source and the same destination, and a NewEdge has failed
C27_Witness ==
    /\ Len(edges) >= 3
    /\ \E e, f \in Edges :
           /\ e # f
           /\ edges[e].srcNode = edges[f].srcNode
           /\ edges[e].dstNode = edges[f].dstNode
           /\ edges[e].srcNode # edges[e].dstNode
    /\ ret.op = "NewEdge" /\ ret.err

\* C28: no panic of the package is reachable by NewNode, NewNest, NewEdge
\* and MoveToNest: neither the ancestor search of calcNestAndMoveToIt nor a
\* check of calcNestAndMoveToIt, MoveToNest, addNode, removeNode, addEdge or
\* removeEdge stops the program
C28_NoPanicIsReachable ==
    fault = "none"

\* C28 witness: inside a MoveToNest call the ancestor search has run for an
\* edge whose endpoints are in nests of different levels, and the edge has
\* been taken out of one nest and put in another
C28_Witness ==
    /\ pc \in {"in_cond", "out_cond"}
    /\ fault = "none"
    /\ nests[nodes[edges[mv.edge].srcNode].nest].level
           # nests[nodes[edges[mv.edge].dstNode].nest].level
    /\ nests[mv.from].level # nests[mv.nest].level
    /\ nests[edges[mv.edge].nest].firstEdge = mv.edge

\* C29: a MoveToNest call with a nest of the nest tree of another graph than
\* the node's returns an error and changes no node, no nest and no edge: the
\* membership lists, the nest of the node and the nest of every edge stay
C29_MoveToForeignNestChangesNothing ==
    [][ \/ ret'.op # "MoveToNest"
        \/ pc # "idle"
        \/ \A n \in Nodes : \A t \in Nests :
               \/ nestTrees[nests[t].nestTree].baseGraph = nodes[n].graph
               \/ ~MoveToNest(n, t)
               \/ /\ ret'.err
                  /\ nodes' = nodes
                  /\ nests' = nests
                  /\ edges' = edges
                  /\ pc' = "idle"
                  /\ fault' = "none"
      ]_vars

\* C29 witness: a MoveToNest call has returned an error on a graph that has
\* an edge and a node in a child nest
C29_Witness ==
    /\ ret.op = "MoveToNest" /\ ret.err
    /\ pc = "idle"
    /\ Edges # {}
    /\ \E n \in Nodes : nodes[n].graph = G /\ nests[nodes[n].nest].parentNest # nil

\* C30: every nest but the root nest of its tree has that root nest as
\* parent and level 1; and whenever no call is in progress the nest of an
\* edge is the nest of its end nodes when they are in one nest and the root
\* nest of the graph's tree when they are not
C30_NestsAreChildrenOfRoot ==
    /\ \A t \in Nests :
           LET root == nestTrees[nests[t].nestTree].rootNest
           IN  t # root => nests[t].parentNest = root /\ nests[t].level = 1
    /\ pc = "idle" =>
           \A e \in Edges :
               LET src_nest == nodes[edges[e].srcNode].nest
                   dst_nest == nodes[edges[e].dstNode].nest
               IN  edges[e].nest = IF src_nest = dst_nest THEN src_nest
                                   ELSE nestTrees[graphs[edges[e].graph].nestTree].rootNest

\* C30 witness: no call is in progress and an edge joins a node of one child
\* nest of the root and a node of another
C30_Witness ==
    /\ pc = "idle"
    /\ \E e \in Edges :
           /\ nodes[edges[e].srcNode].nest # nodes[edges[e].dstNode].nest
           /\ nests[nodes[edges[e].srcNode].nest].parentNest # nil
           /\ nests[nodes[edges[e].dstNode].nest].parentNest # nil

\* C31: NewEdge with one node of the graph as source and as destination
\* returns an edge and no error; the edge is the head of the outcoming and of
\* the incoming list of the node, in front of the former heads, its nest is
\* the nest of the node, and the adjacency lists and the edge lists of the
\* nests are well formed after the call
C31_LoopEdgeGoesToTheNestOfItsNode ==
    [][ \/ ret'.op # "NewEdge"
        \/ \A n \in Nodes :
               \/ nodes[n].graph # G
               \/ ~NewEdgeWithin(MaxAdjEdges, G, n, n)
               \/ LET e == ret'.val
                  IN  /\ ~ret'.err /\ fault' = "none"
                      /\ e \in 1..Len(edges') /\ e \notin Edges
                      /\ edges'[e].srcNode = n /\ edges'[e].dstNode = n
                      /\ nodes'[n].firstOutcomingEdge = e
                      /\ nodes'[n].firstIncomingEdge = e
                      /\ edges'[e].prevOutcomingEdge = nil
                      /\ edges'[e].prevIncomingEdge = nil
                      /\ edges'[e].nextOutcomingEdge = nodes[n].firstOutcomingEdge
                      /\ edges'[e].nextIncomingEdge = nodes[n].firstIncomingEdge
                      /\ edges'[e].nest = nodes[n].nest
                      /\ nodes'[n].nest = nodes[n].nest
                      /\ C27_AdjacencyListsHoldEveryEdge'
                      /\ C6_EdgeMembershipLists'
      ]_vars

\* C31 witness: NewEdge has returned a loop edge on a node of a child nest
\* that had an outcoming and an incoming edge before
C31_Witness ==
    /\ ret.op = "NewEdge" /\ ~ret.err
    /\ edges[ret.val].srcNode = edges[ret.val].dstNode
    /\ nests[nodes[edges[ret.val].srcNode].nest].parentNest # nil
    /\ edges[ret.val].nextOutcomingEdge # nil
    /\ edges[ret.val].nextIncomingEdge # nil

\* C32: no step of a MoveToNest call that returns no error changes the
\* identity, the adjacency list heads or an attribute value of a node, the
\* identity, the end nodes or the adjacency links of an edge, a counter, an
\* allocation map or an attribute handle, or the identity, the level, the
\* links or an attribute value of a nest; the step that moves the node
\* changes the nest of one node at most and no later step that of any
C32_MoveToNestChangesMembershipOnly ==
    [][ (\/ pc = "idle" /\ ret'.op = "MoveToNest" /\ ~ret'.err
         \/ pc # "idle")
        => /\ Len(nodes') = Len(nodes) /\ Len(edges') = Len(edges)
           /\ Len(nests') = Len(nests)
           /\ \A n \in Nodes :
                  /\ nodes'[n].id = nodes[n].id
                  /\ nodes'[n].graph = nodes[n].graph
                  /\ nodes'[n].firstIncomingEdge = nodes[n].firstIncomingEdge
                  /\ nodes'[n].firstOutcomingEdge = nodes[n].firstOutcomingEdge
                  /\ nodes'[n].strAttrs = nodes[n].strAttrs
           /\ \A e \in Edges :
                  /\ edges'[e].id = edges[e].id
                  /\ edges'[e].graph = edges[e].graph
                  /\ edges'[e].srcNode = edges[e].srcNode
                  /\ edges'[e].dstNode = edges[e].dstNode
                  /\ edges'[e].nextOutcomingEdge = edges[e].nextOutcomingEdge
                  /\ edges'[e].prevOutcomingEdge = edges[e].prevOutcomingEdge
                  /\ edges'[e].nextIncomingEdge = edges[e].nextIncomingEdge
                  /\ edges'[e].prevIncomingEdge = edges[e].prevIncomingEdge
           /\ \A t \in Nests :
                  /\ nests'[t].id = nests[t].id
                  /\ nests'[t].nestTree = nests[t].nestTree
                  /\ nests'[t].level = nests[t].level
                  /\ nests'[t].parentNest = nests[t].parentNest
                  /\ nests'[t].firstChildNest = nests[t].firstChildNest
                  /\ nests'[t].lastChildNest = nests[t].lastChildNest
                  /\ nests'[t].nextSiblingNest = nests[t].nextSiblingNest
                  /\ nests'[t].prevSiblingNest = nests[t].prevSiblingNest
                  /\ nests'[t].strAttrs = nests[t].strAttrs
           /\ graphs' = graphs
           /\ nestTrees' = nestTrees
           /\ graphAttrs' = graphAttrs /\ nodeAttrs' = nodeAttrs /\ nestAttrs' = nestAttrs
           /\ Cardinality({n \in Nodes : nodes'[n].nest # nodes[n].nest})
                  <= IF pc = "idle" THEN 1 ELSE 0
      ]_vars

\* C32 witness: a call has moved a node with an attribute value out of a nest
\* in which another node stays to another nest and has reattributed an edge
C32_Witness ==
    /\ pc \in {"in_cond", "out_cond"}
    /\ mv.from # mv.nest
    /\ nodes[mv.node].nest = mv.nest
    /\ \E i \in 1..Len(nodes[mv.node].strAttrs) : nodes[mv.node].strAttrs[i].isSet
    /\ nests[mv.from].firstNode # nil

\* The valid handles of the three arenas that refer to slot i of the pool of
\* graph g (of its nest tree, for nest handles); slots are numbered from 0
GraphHandlesOf(g, i) ==
    {a \in 1..Len(graphAttrs) :
        graphAttrs[a].isValid /\ graphAttrs[a].graph = g /\ graphAttrs[a].attrNum = i}

NodeHandlesOf(g, i) ==
    {a \in 1..Len(nodeAttrs) :
        nodeAttrs[a].isValid /\ nodeAttrs[a].graph = g /\ nodeAttrs[a].attrNum = i}

NestHandlesOf(nt, i) ==
    {a \in 1..Len(nestAttrs) :
        nestAttrs[a].is_valid /\ nestAttrs[a].nestTree = nt /\ nestAttrs[a].attr_num = i}

\* In each pool a slot is marked allocated exactly when one valid handle
\* refers to it, no slot has two valid handles, and every valid handle refers
\* to a slot of its pool
PoolsMatchHandles ==
    /\ \A g \in Graphs :
           /\ \A i \in 1..Len(graphs[g].graphStrAttrAllocMap) :
                  /\ Cardinality(GraphHandlesOf(g, i - 1)) <= 1
                  /\ graphs[g].graphStrAttrAllocMap[i] <=> GraphHandlesOf(g, i - 1) # {}
           /\ \A i \in 1..Len(graphs[g].nodeStrAttrAllocMap) :
                  /\ Cardinality(NodeHandlesOf(g, i - 1)) <= 1
                  /\ graphs[g].nodeStrAttrAllocMap[i] <=> NodeHandlesOf(g, i - 1) # {}
           /\ \A i \in 1..Len(nestTrees[g].nestStrAttrAllocMap) :
                  /\ Cardinality(NestHandlesOf(g, i - 1)) <= 1
                  /\ nestTrees[g].nestStrAttrAllocMap[i] <=> NestHandlesOf(g, i - 1) # {}
    /\ \A a \in 1..Len(graphAttrs) :
           graphAttrs[a].isValid
               => graphAttrs[a].attrNum + 1
                      \in 1..Len(graphs[graphAttrs[a].graph].graphStrAttrAllocMap)
    /\ \A a \in 1..Len(nodeAttrs) :
           nodeAttrs[a].isValid
               => nodeAttrs[a].attrNum + 1
                      \in 1..Len(graphs[nodeAttrs[a].graph].nodeStrAttrAllocMap)
    /\ \A a \in 1..Len(nestAttrs) :
           nestAttrs[a].is_valid
               => nestAttrs[a].attr_num + 1
                      \in 1..Len(nestTrees[nestAttrs[a].nestTree].nestStrAttrAllocMap)

\* C33: after every step the allocation map of each pool marks exactly the
\* slots that one valid handle refers to, so that no slot is handed out while
\* a valid handle holds it; and a step that changes the map or a handle of
\* one of the three pools changes neither of the other two
C33_PoolsMatchHandlesAndAreIndependent ==
    [][ /\ PoolsMatchHandles'
        /\ LET graphPool == <<[g \in Graphs |-> graphs[g].graphStrAttrAllocMap], graphAttrs>>
               nodePool == <<[g \in Graphs |-> graphs[g].nodeStrAttrAllocMap], nodeAttrs>>
               nestPool == <<[g \in Graphs |-> nestTrees[g].nestStrAttrAllocMap], nestAttrs>>
           IN  /\ graphPool' # graphPool => nodePool' = nodePool /\ nestPool' = nestPool
               /\ nodePool' # nodePool => graphPool' = graphPool /\ nestPool' = nestPool
               /\ nestPool' # nestPool => graphPool' = graphPool /\ nodePool' = nodePool
      ]_vars

\* C33 witness: a node attribute slot has been released and handed out
\* again while a graph attribute handle is valid
C33_Witness ==
    /\ \E a, b \in 2..Len(nodeAttrs) :
           /\ a < b
           /\ ~nodeAttrs[a].isValid
           /\ nodeAttrs[b].isValid
    /\ \E a \in 2..Len(graphAttrs) : graphAttrs[a].isValid

\* ---------------------------------------------------------------------
\* The cells <<element, slot>> whose attribute value differs between the two
\* states of a step, for graphs, nodes and nests
ChangedGraphCells ==
    {c \in (1..Len(graphs)) \X (1..GraphStrAttrNum) :
        /\ c[2] \in 1..Len(graphs[c[1]].strAttrs)
        /\ graphs'[c[1]].strAttrs[c[2]] # graphs[c[1]].strAttrs[c[2]]}

ChangedNodeCells ==
    {c \in (1..Len(nodes)) \X (1..NodeStrAttrNum) :
        /\ c[2] \in 1..Len(nodes[c[1]].strAttrs)
        /\ nodes'[c[1]].strAttrs[c[2]] # nodes[c[1]].strAttrs[c[2]]}

ChangedNestCells ==
    {c \in (1..Len(nests)) \X (1..NestStrAttrNum) :
        /\ c[2] \in 1..Len(nests[c[1]].strAttrs)
        /\ nests'[c[1]].strAttrs[c[2]] # nests[c[1]].strAttrs[c[2]]}

\* No element gets or loses a slot in the step
SlotCountsKept ==
    /\ Len(graphs') = Len(graphs) /\ Len(nodes') = Len(nodes) /\ Len(nests') = Len(nests)
    /\ \A g \in 1..Len(graphs) : Len(graphs'[g].strAttrs) = Len(graphs[g].strAttrs)
    /\ \A n \in 1..Len(nodes) : Len(nodes'[n].strAttrs) = Len(nodes[n].strAttrs)
    /\ \A t \in 1..Len(nests) : Len(nests'[t].strAttrs) = Len(nests[t].strAttrs)

\* The three allocation maps of every graph are the same after the step
AllocMapsKept ==
    /\ Len(nestTrees') = Len(nestTrees)
    /\ \A g \in 1..Len(graphs) :
        /\ graphs'[g].graphStrAttrAllocMap = graphs[g].graphStrAttrAllocMap
        /\ graphs'[g].nodeStrAttrAllocMap = graphs[g].nodeStrAttrAllocMap
    /\ \A t \in 1..Len(nestTrees) :
        nestTrees'[t].nestStrAttrAllocMap = nestTrees[t].nestStrAttrAllocMap

\* The step ended operation op without an error and without a panic
Succeeded(op) == ret'.op = op /\ ~ret'.err /\ fault' = "none"

\* A successful set or remove wrote at most the cell of its element and slot
OnlyCellWritten(changed, others1, others2, element, slot) ==
    /\ changed \subseteq {<<element, slot>>}
    /\ others1 = {} /\ others2 = {}
    /\ SlotCountsKept
    /\ AllocMapsKept

\* A successful release wrote values in the released slot at most
OnlySlotWritten(changed, others1, others2, slot) ==
    /\ \A c \in changed : c[2] = slot
    /\ others1 = {} /\ others2 = {}
    /\ SlotCountsKept

\* C34: a successful set or remove on one element through one handle changes
\* the value of that element in the slot of the handle and nothing else: the
\* other slots of the element, every slot of every other element and the
\* three allocation maps stay as they were; a successful release changes
\* values in the released slot only.
C34_WritesTouchOneCell ==
    [][ /\ (Succeeded("GraphSetStrAttrVal") \/ Succeeded("GraphRemoveStrAttr")) =>
            \A g \in 1..Len(graphs) : \A a \in 1..Len(graphAttrs) :
                ((\E v \in Values : GraphSetStrAttrVal(g, a, v)) \/ GraphRemoveStrAttr(g, a)) =>
                    OnlyCellWritten(ChangedGraphCells, ChangedNodeCells, ChangedNestCells,
                                    g, graphAttrs[a].attrNum + 1)
        /\ (Succeeded("NodeSetStrAttrVal") \/ Succeeded("NodeRemoveStrAttr")) =>
            \A n \in 1..Len(nodes) : \A a \in 1..Len(nodeAttrs) :
                ((\E v \in Values : NodeSetStrAttrVal(n, a, v)) \/ NodeRemoveStrAttr(n, a)) =>
                    OnlyCellWritten(ChangedNodeCells, ChangedGraphCells, ChangedNestCells,
                                    n, nodeAttrs[a].attrNum + 1)
        /\ (Succeeded("NestSetStrAttrVal") \/ Succeeded("NestRemoveStrAttr")) =>
            \A t \in 1..Len(nests) : \A a \in 1..Len(nestAttrs) :
                ((\E v \in Values : NestSetStrAttrVal(t, a, v)) \/ NestRemoveStrAttr(t, a)) =>
                    OnlyCellWritten(ChangedNestCells, ChangedGraphCells, ChangedNodeCells,
                                    t, nestAttrs[a].attr_num + 1)
        /\ Succeeded("ReleaseGraphStrAttr") =>
            \A g \in 1..Len(graphs) : \A a \in 1..Len(graphAttrs) :
                ReleaseGraphStrAttr(g, a) =>
                    OnlySlotWritten(ChangedGraphCells, ChangedNodeCells, ChangedNestCells,
                                    graphAttrs[a].attrNum + 1)
        /\ Succeeded("ReleaseNodeStrAttr") =>
            \A g \in 1..Len(graphs) : \A a \in 1..Len(nodeAttrs) :
                ReleaseNodeStrAttr(g, a) =>
                    OnlySlotWritten(ChangedNodeCells, ChangedGraphCells, ChangedNestCells,
                                    nodeAttrs[a].attrNum + 1)
        /\ Succeeded("ReleaseNestStrAttr") =>
            \A t \in 1..Len(nestTrees) : \A a \in 1..Len(nestAttrs) :
                ReleaseNestStrAttr(t, a) =>
                    OnlySlotWritten(ChangedNestCells, ChangedGraphCells, ChangedNodeCells,
                                    nestAttrs[a].attr_num + 1)
      ]_vars

\* A value of the graph was removed through one handle while the value set
\* through the other handle is still there
C34_Witness ==
    /\ fault = "none"
    /\ ret.op = "GraphRemoveStrAttr" /\ ~ret.err
    /\ \E i, j \in 1..Len(graphs[G].strAttrs) :
        /\ i # j
        /\ graphs[G].strAttrs[i].isSet
        /\ ~graphs[G].strAttrs[j].isSet /\ graphs[G].strAttrs[j].data # ""

\* ---------------------------------------------------------------------
\* A sequence without the entries equal to x
Without(s, x) == SelectSeq(s, LAMBDA y : y # x)

\* The ids along a chain of nests fall strictly
IdsFall(chain) ==
    \A i \in 1..(Len(chain) - 1) : nests[chain[i]].id > nests[chain[i + 1]].id

\* C35: NewNode puts the new node in front of the members of the root nest;
\* a MoveToNest without an error puts the node in front of the members of
\* the target nest and takes it out of the list it was in, every list keeping
\* the order of its other members (a move into the node's own nest brings the
\* node to the front); NewNest puts the new nest in front of the children of
\* the root nest, so that the children of a root are listed from the one made
\* last to the one made first.
C35_ListsAreHeadInserted ==
    [][ /\ (ret'.op = "NewNode" /\ Len(nodes') = Len(nodes) + 1) =>
            \A u \in Nests :
                NodeChain(nests[u].firstNode, MaxOrderNodes + 1)'
                    = (IF u = nodes'[Len(nodes')].nest /\ nests[u].parentNest = nil
                       THEN <<Len(nodes')>> ELSE <<>>)
                      \o NodeChain(nests[u].firstNode, MaxOrderNodes + 1)
        /\ (ret'.op = "MoveToNest" /\ ~ret'.err /\ pc = "idle") =>
            \A n \in Nodes : \A t \in Nests :
                MoveToNest(n, t) =>
                    \A u \in Nests :
                        NodeChain(nests[u].firstNode, MaxOrderNodes + 1)'
                            = (IF u = t THEN <<n>> ELSE <<>>)
                              \o Without(NodeChain(nests[u].firstNode, MaxOrderNodes + 1), n)
        /\ (ret'.op = "NewNest" /\ Len(nests') = Len(nests) + 1) =>
            \A r \in Nests :
                r = nests'[Len(nests')].parentNest =>
                    /\ nests[r].parentNest = nil
                    /\ SiblingChain(nests[r].firstChildNest, MaxNests + 1)'
                           = <<Len(nests')>>
                             \o SiblingChain(nests[r].firstChildNest, MaxNests + 1)
        /\ \A r \in Nests :
               nests[r].parentNest = nil =>
                   IdsFall(SiblingChain(nests[r].firstChildNest, MaxNests + 1))'
      ]_vars

\* C35 witness: a nest of three nodes after a move within it: the node made
\* first is in front and the other two are in the order they had, the one
\* made last before the other
C35_Witness ==
    /\ ret.op = "MoveToNest" /\ ~ret.err /\ fault = "none" /\ pc = "idle"
    /\ \E u \in Nests :
        LET chain == NodeChain(nests[u].firstNode, MaxOrderNodes + 1)
        IN  /\ Len(chain) = 3
            /\ nodes[chain[1]].id < nodes[chain[3]].id
            /\ nodes[chain[3]].id < nodes[chain[2]].id
    /\ \E t \in Nests : nests[t].parentNest # nil /\ nests[t].nextSiblingNest # nil


====
